---------------------------- MODULE Spec2Model ----------------------------
(***************************************************************************)
(* A model of the gedi_tiler repository: the 1-degree tile grid            *)
(* (gtiler/database/tiles.py), the reconciliation run (tile_runner.py),    *)
(* the consistency check (scripts/check_tiles.py), the granule reader's    *)
(* credential retry (gtiler/dps_tile_builder.py), the crossover finder     *)
(* (gtiler/database/query_lib/crossovers.py), the shape formatting         *)
(* (gtiler/common/shape_parser.py) and the granule catalog with its        *)
(* fingerprint (gtiler/common/granule_metadata.py).                        *)
(*                                                                         *)
(* Each subsystem has its own variables, its own initial condition and its *)
(* own specification; a specification leaves the other subsystems idle.    *)
(***************************************************************************)
EXTENDS Integers, Sequences, FiniteSets, TLC

VARIABLES
    \* ---- tile grid (tiles.py) ----
    t_pc,       \* "point" | "text" | "tile" | "region" | "covered" | "id" | "args"
    t_lon,      \* input longitude, in units of 1/Res degree
    t_lat,      \* input latitude, in units of 1/Res degree
    t_region,   \* input region: a set of rows, each a set of rectangles
    t_id,       \* the identifier _to_text returned (a sequence of characters)
    t_tile,     \* the Tile built from t_id, or TileError
    t_cover,    \* the tiles returned by get_covering_tiles_for_region
    \* ---- reconciliation run (tile_runner.py) and its stores ----
    r_cmr,      \* the catalog joined to the grid: [tile, granule, hash] associations
    r_md,       \* s3://<db>/metadata/: rows [tile, granule, hash, time]
    r_data,     \* s3://<db>/data/: the tiles that have data files
    r_jobs,     \* the jobs on the platform: [id, tile, status]
    r_clock,    \* the wall clock (pd.Timestamp.now), one tick per run
    r_run,      \* the run of main in progress or last ended
    r_prev,     \* the snapshots the previous run read and the plan it made
    \* ---- consistency check (scripts/check_tiles.py) ----
    c_md,       \* s3://<db>/metadata/: rows [tile, granule, hash, copy]
    c_lit,      \* the local file literally named {md_spec}: whether it exists, and its rows
    c_data,     \* s3://<db>/data/: the tiles that have a data directory
    c_run,      \* the run of main in progress or last ended
    \* ---- granule reader (gtiler/dps_tile_builder.py, load_granule_product) ----
    l_pc,       \* "idle" | "try" | "except" | "returned" | "raised"
    l_url,      \* the s3url being loaded
    l_readable, \* the urls whose object can be read with valid credentials
    l_cred,     \* whether the credentials held by rfs are still valid
    l_depth,    \* the number of load_granule_product frames on the stack
    l_attempts, \* the number of reads of the file attempted by the call
    l_result,   \* what the outermost call returned or raised
    \* ---- crossover finder (gtiler/database/query_lib/crossovers.py) ----
    x_src,      \* the shots in the parquet files, in file order: rows
                \* [shot, X, Y, h3, inside]
    x_run,      \* the call of find_repeat_footprints in progress or ended
    \* ---- shape formatting (gtiler/common/shape_parser.py) ----
    s_shp,      \* the shape given to check_and_format_shape: a set of rows
    s_run,      \* the call of check_and_format_shape in progress or ended
    \* ---- granule fingerprint (gtiler/common/granule_metadata.py) ----
    h_a,        \* a list of filenames
    h_b,        \* another list of filenames
    h_out,      \* the fingerprints of the two lists, once computed
    \* ---- granule catalog (gtiler/common/granule_metadata.py) ----
    g_products, \* the products argument of get_granule_metadata
    g_cmr,      \* the catalog's answer for each product, in its order
    g_run,      \* the call of get_granule_metadata in progress or ended
    \* ---- catalog query (gtiler/common/cmr_query.py, query) ----
    q_cat,      \* the catalog: its pages of entries and how it answers
    q_run,      \* the call of query in progress or ended
    \* ---- jobs manager (gtiler/common/jobs_manager.py, JobsManager) ----
    j_jobs,     \* the jobs on the platform, by job id: [tag, tile_id, status]
    j_mgr,      \* the JobsManager and its call of manage in progress or ended
    \* ---- update of the tiled database (update_tiles.py) ----
    u_store,    \* the two databases, "main" (<prefix>) and "updates" (<prefix>_updates): [md, data]
    u_jobs,     \* the builder jobs of each database
    u_old,      \* metadata_old, the backup of the main metadata
    u_upd,      \* update_tiles main: [pc, save_md]
    u_clock,    \* number of tile_runner runs so far
    \* ---- tiling followed by the consistency check (tile_runner.py, check_tiles.py) ----
    v_tiling    \* the tile_runner run made before the check: [pc, covering_tiles, cmr]

tileVars == <<t_pc, t_lon, t_lat, t_region, t_id, t_tile, t_cover>>

runVars == <<r_cmr, r_md, r_data, r_jobs, r_clock, r_run, r_prev>>

checkVars == <<c_md, c_lit, c_data, c_run>>

loadVars == <<l_pc, l_url, l_readable, l_cred, l_depth, l_attempts, l_result>>

crossVars == <<x_src, x_run>>

shapeVars == <<s_shp, s_run>>

hashVars == <<h_a, h_b, h_out>>

catalogVars == <<g_products, g_cmr, g_run>>

queryVars == <<q_cat, q_run>>

jobsVars == <<j_jobs, j_mgr>>

mergeVars == <<u_store, u_jobs, u_old, u_upd, u_clock>>

coverVars == <<v_tiling>>

vars == <<tileVars, runVars, checkVars, loadVars, crossVars, shapeVars, hashVars,
          catalogVars,
          queryVars,
          jobsVars,
          mergeVars,
          coverVars>>

\* what a step of one subsystem leaves alone
notTile ==
    <<runVars, checkVars, loadVars, crossVars, shapeVars, hashVars, catalogVars,
      queryVars,
      jobsVars,
      mergeVars,
      coverVars>>

notRun ==
    <<tileVars, checkVars, loadVars, crossVars, shapeVars, hashVars, catalogVars,
      queryVars,
      jobsVars,
      mergeVars,
      coverVars>>

notCheck ==
    <<tileVars, runVars, loadVars, crossVars, shapeVars, hashVars, catalogVars,
      queryVars,
      jobsVars,
      mergeVars,
      coverVars>>

notLoad ==
    <<tileVars, runVars, checkVars, crossVars, shapeVars, hashVars, catalogVars,
      queryVars,
      jobsVars,
      mergeVars,
      coverVars>>

notCross ==
    <<tileVars, runVars, checkVars, loadVars, shapeVars, hashVars, catalogVars,
      queryVars,
      jobsVars,
      mergeVars,
      coverVars>>

notShape ==
    <<tileVars, runVars, checkVars, loadVars, crossVars, hashVars, catalogVars,
      queryVars,
      jobsVars,
      mergeVars,
      coverVars>>

notHash ==
    <<tileVars, runVars, checkVars, loadVars, crossVars, shapeVars, catalogVars,
      queryVars,
      jobsVars,
      mergeVars,
      coverVars>>

notCatalog ==
    <<tileVars, runVars, checkVars, loadVars, crossVars, shapeVars, hashVars,
      queryVars,
      jobsVars,
      mergeVars,
      coverVars>>

notQuery ==
    <<tileVars, runVars, checkVars, loadVars, crossVars, shapeVars, hashVars,
      catalogVars,
      jobsVars,
      mergeVars,
      coverVars>>

notJobs ==
    <<tileVars, runVars, checkVars, loadVars, crossVars,
      shapeVars, hashVars, catalogVars, queryVars,
      mergeVars,
      coverVars>>

notMerge ==
    <<tileVars, runVars, checkVars, loadVars, crossVars,
      shapeVars, hashVars, catalogVars, queryVars, jobsVars,
      coverVars>>

notCover ==
    <<tileVars, runVars, checkVars, loadVars, crossVars,
      shapeVars, hashVars, catalogVars, queryVars, jobsVars, mergeVars>>

-----------------------------------------------------------------------------
(* Helpers *)

Abs(x) == IF x < 0 THEN -x ELSE x

Max2(a, b) == IF a >= b THEN a ELSE b

Min2(a, b) == IF a <= b THEN a ELSE b

-----------------------------------------------------------------------------
(* Tile grid: gtiler/database/tiles.py *)

\* Coordinates are fixed-point numbers with Res units per degree.
Res == 2

DigitChars == <<"0", "1", "2", "3", "4", "5", "6", "7", "8", "9">>

IsDigit(c) == \E k \in 1..10 : DigitChars[k] = c

DigitValue(c) == (CHOOSE k \in 1..10 : DigitChars[k] = c) - 1

\* str(n) for an integer n >= 0
RECURSIVE DecimalDigits(_)
DecimalDigits(n) ==
    IF n < 10 THEN <<DigitChars[n + 1]>>
    ELSE DecimalDigits(n \div 10) \o <<DigitChars[(n % 10) + 1]>>

\* the format specification {n:0<width>d}: zero padding to a minimum width
RECURSIVE ZeroPad(_, _)
ZeroPad(s, width) == IF Len(s) >= width THEN s ELSE ZeroPad(<<"0">> \o s, width)

\* int(s) for a sequence of digits
RECURSIVE ParseInt(_)
ParseInt(s) ==
    IF Len(s) = 0 THEN 0
    ELSE 10 * ParseInt(SubSeq(s, 1, Len(s) - 1)) + DigitValue(s[Len(s)])

\* int(x) for a fixed-point x >= 0: truncation
IntOfAbs(xs) == xs \div Res

\* _to_nesw(lon, lat): ((abs(lon), abs(lat)), (lon_ew, lat_ns))
_to_nesw(lon, lat) ==
    [lon_abs |-> Abs(lon), lat_abs |-> Abs(lat),
     lon_dir |-> IF lon < 0 THEN "W" ELSE "E",
     lat_dir |-> IF lat < 0 THEN "S" ELSE "N"]

\* _to_text(lon, lat): f"{lat_dir}{int(lat_abs):02d}_{lon_dir}{int(lon_abs):03d}"
_to_text(lon, lat) ==
    LET r == _to_nesw(lon, lat) IN
    <<r.lat_dir>> \o ZeroPad(DecimalDigits(IntOfAbs(r.lat_abs)), 2) \o <<"_">>
        \o <<r.lon_dir>> \o ZeroPad(DecimalDigits(IntOfAbs(r.lon_abs)), 3)

TileError == [error |-> "ValueError"]

\* re.compile(r"^([NS])(\d{2})_([EW])(\d{3})$").match(tile_id); in Python "$"
\* matches at the end of the string and also just before a newline that ends it
retile_match(tile_id) ==
    /\ \/ Len(tile_id) = 8
       \/ Len(tile_id) = 9 /\ tile_id[9] = "\n"
    /\ tile_id[1] \in {"N", "S"}
    /\ IsDigit(tile_id[2]) /\ IsDigit(tile_id[3])
    /\ tile_id[4] = "_"
    /\ tile_id[5] \in {"E", "W"}
    /\ IsDigit(tile_id[6]) /\ IsDigit(tile_id[7]) /\ IsDigit(tile_id[8])

\* Tile.__init__ reading the identifier as the lower-left corner (minx, miny)
Tile_LowerLeft(tile_id) ==
    IF ~retile_match(tile_id) THEN TileError
    ELSE LET lat0 == ParseInt(SubSeq(tile_id, 2, 3))
             lon0 == ParseInt(SubSeq(tile_id, 6, 8))
             lat == IF tile_id[1] = "S" THEN -lat0 ELSE lat0
             lon == IF tile_id[5] = "W" THEN -lon0 ELSE lon0
         IN [id |-> tile_id, minx |-> lon, maxy |-> lat + 1,
             maxx |-> lon + 1, miny |-> lat]

\* Tile.__init__ without the sign of the latitude
Tile_NorthOnly(tile_id) ==
    IF ~retile_match(tile_id) THEN TileError
    ELSE LET lat == ParseInt(SubSeq(tile_id, 2, 3))
             lon0 == ParseInt(SubSeq(tile_id, 6, 8))
             lon == IF tile_id[5] = "W" THEN -lon0 ELSE lon0
         IN [id |-> tile_id, minx |-> lon, maxy |-> lat,
             maxx |-> lon + 1, miny |-> lat - 1]

\* Tile.__init__: the corner named by the identifier is (minx, maxy)
Tile(tile_id) ==
    IF ~retile_match(tile_id) THEN TileError
    ELSE LET ns  == tile_id[1]
             ew  == tile_id[5]
             lat0 == ParseInt(SubSeq(tile_id, 2, 3))
             lon0 == ParseInt(SubSeq(tile_id, 6, 8))
             lat == IF ns = "S" THEN -lat0 ELSE lat0
             lon == IF ew = "W" THEN -lon0 ELSE lon0
         IN [id |-> tile_id, minx |-> lon, maxy |-> lat,
             maxx |-> lon + 1, miny |-> lat - 1]

\* the grid bounds of get_covering_tiles_for_region
grid_minx == -180

grid_maxx == 179

grid_miny == -89

grid_maxy == 90

\* for i in range(minx, maxx): for j in range(maxy, miny, -1)
GridCorners ==
    {<<i, j>> : i \in grid_minx..(grid_maxx - 1), j \in (grid_miny + 1)..grid_maxy}

\* a rectangle [x0, x1] x [y0, y1] in fixed-point units
Rect(x0, y0, x1, y1) == [x0 |-> x0, y0 |-> y0, x1 |-> x1, y1 |-> y1]

\* shapely box(minx, miny, maxx, maxy) of a tile, in fixed-point units
TileShape(minx, miny, maxx, maxy) ==
    Rect(minx * Res, miny * Res, maxx * Res, maxy * Res)

\* predicate="intersects" on two closed rectangles: they share a point, that is,
\* their extents overlap or touch on both axes
OverlapX(a, b) == a.x0 <= b.x1 /\ b.x0 <= a.x1

OverlapY(a, b) == a.y0 <= b.y1 /\ b.y0 <= a.y1

Intersects(a, b) == OverlapX(a, b) /\ OverlapY(a, b)

\* the grid corners whose tile intersects one row of the shape (for rectangles
\* the test separates into the two axes)
CornersHitting(row) ==
    {<<i, j>> :
        i \in {i \in grid_minx..(grid_maxx - 1) :
                  OverlapX(TileShape(i, 0, i + 1, 0), row)},
        j \in {j \in (grid_miny + 1)..grid_maxy :
                  OverlapY(TileShape(0, j - 1, 0, j), row)}}

\* the grid corners whose tile shares more than a border with one part
CornersOverlapping(part) ==
    {<<i, j>> :
        i \in {i \in grid_minx..(grid_maxx - 1) :
                  i * Res < part.x1 /\ part.x0 < (i + 1) * Res},
        j \in {j \in (grid_miny + 1)..grid_maxy :
                  (j - 1) * Res < part.y1 /\ part.y0 < j * Res}}

\* the join with a predicate that needs a common interior
get_covering_tiles_for_region_Overlaps(shape) ==
    LET hit == UNION {UNION {CornersOverlapping(part) : part \in row} : row \in shape}
    IN {Tile(_to_text(c[1] * Res, c[2] * Res)) : c \in hit}

\* A shape is a set of rows; the geometry of a row is a set of rectangles (one
\* for a polygon, several for a multipolygon).  A tile intersects a row when it
\* intersects one of its parts.
\* tile_df.sjoin(shape, how="inner", predicate="intersects")
\*     .drop_duplicates(subset=["tile_id", "geometry"])
get_covering_tiles_for_region(shape) ==
    LET hit == UNION {UNION {CornersHitting(part) : part \in row} : row \in shape}
    IN {Tile(_to_text(c[1] * Res, c[2] * Res)) : c \in hit}

\* covering_tiles.union_all(): one geometry holding the boxes of the tiles
union_all(covering_tiles) ==
    {{TileShape(t.minx, t.miny, t.maxx, t.maxy) : t \in covering_tiles}}

\* the closed box of a tile contains a fixed-point location
BoxContains(tile, lon, lat) ==
    /\ tile.minx * Res <= lon /\ lon <= tile.maxx * Res
    /\ tile.miny * Res <= lat /\ lat <= tile.maxy * Res

\* _get_indices_in_tile: the shots of a beam that a tile's builder keeps
in_tile(tile, lon, lat) ==
    /\ lon >= tile.minx * Res
    /\ lon < tile.maxx * Res
    /\ lat > tile.miny * Res
    /\ lat <= tile.maxy * Res

\* the grid corners within two degrees of a location
CornersNear(lon, lat) ==
    {<<i, j>> :
        i \in {i \in grid_minx..(grid_maxx - 1) : Abs(i * Res - lon) <= 2 * Res},
        j \in {j \in (grid_miny + 1)..grid_maxy : Abs(j * Res - lat) <= 2 * Res}}

\* the tiles of the grid whose builder keeps a shot at the location (a tile is
\* one degree wide, so only the corners near the location can keep it)
grid_tiles_holding(lon, lat) ==
    {tile \in {Tile(_to_text(c[1] * Res, c[2] * Res)) : c \in CornersNear(lon, lat)} :
        in_tile(tile, lon, lat)}

-----------------------------------------------------------------------------
(* The other subsystems at rest *)

TileIdle ==
    /\ t_pc = "idle" /\ t_lon = 0 /\ t_lat = 0 /\ t_region = {}
    /\ t_id = << >> /\ t_tile = [error |-> "none"] /\ t_cover = {}

RunIdle ==
    /\ r_cmr = {} /\ r_md = {} /\ r_data = {} /\ r_jobs = {}
    /\ r_clock = 0 /\ r_run = [pc |-> "idle"] /\ r_prev = [none |-> TRUE]

CheckIdle ==
    /\ c_md = {}
    /\ c_lit = [exists |-> FALSE, rows |-> {}]
    /\ c_data = {}
    /\ c_run = [pc |-> "idle"]

LoadIdle ==
    /\ l_pc = "idle"
    /\ l_url = "none"
    /\ l_readable = {}
    /\ l_cred = TRUE
    /\ l_depth = 0
    /\ l_attempts = 0
    /\ l_result = "none"

CrossIdle ==
    /\ x_src = << >>
    /\ x_run = [pc |-> "idle"]

ShapeIdle ==
    /\ s_shp = {}
    /\ s_run = [pc |-> "idle"]

HashIdle ==
    /\ h_a = << >>
    /\ h_b = << >>
    /\ h_out = [pc |-> "idle"]

CatalogIdle ==
    /\ g_products = << >>
    /\ g_cmr = << >>
    /\ g_run = [pc |-> "idle"]

QueryIdle ==
    /\ q_cat = << >>
    /\ q_run = [pc |-> "idle"]

JobsIdle ==
    /\ j_jobs = << >>
    /\ j_mgr = [pc |-> "idle"]

MergeIdle ==
    /\ u_store = << >>
    /\ u_jobs = << >>
    /\ u_old = {}
    /\ u_upd = [pc |-> "off"]
    /\ u_clock = 0

CoverIdle ==
    /\ v_tiling = << >>

-----------------------------------------------------------------------------
(* Inputs of the tile grid calls *)

\* whole degrees around which sample coordinates are taken
LonAnchors == {-180, -179, -60, -59, -1, 0, 1, 59, 178, 179}

LatAnchors == {-90, -89, -51, -1, 0, 1, 9, 10, 89}

SampleLons == {d * Res + f : d \in LonAnchors, f \in 0..(Res - 1)} \cup {180 * Res}

SampleLats == {d * Res + f : d \in LatAnchors, f \in 0..(Res - 1)} \cup {90 * Res}

RegionLons == {d * Res + f : d \in {-180, -60, 0, 178, 179}, f \in 0..1}

RegionLats == {d * Res + f : d \in {-90, -89, 0, 9, 89}, f \in 0..1}

RegionSizes == {1, Res, 2 * Res + 1}

SampleRects ==
    {Rect(x, y, x + w, y + h) :
        x \in RegionLons, y \in RegionLats, w \in RegionSizes, h \in RegionSizes}

\* the parts of the sample regions that have two parts
SampleParts ==
    {Rect(-60 * Res, 9 * Res, -60 * Res + 1, 9 * Res + 1),
     Rect(-59 * Res, 9 * Res, -58 * Res, 10 * Res),
     Rect(0, 0, 2 * Res + 1, 1),
     Rect(178 * Res, 89 * Res, 178 * Res + 1, 90 * Res)}

\* regions inside the globe [-180, 180] x [-90, 90]: one polygon row, one
\* multipolygon row of two parts, two polygon rows
SampleRegions ==
    {{{r}} : r \in {q \in SampleRects : q.x1 <= 180 * Res /\ q.y1 <= 90 * Res}}
    \cup {{{p, q}} : p, q \in SampleParts}
    \cup {{{p}, {q}} : p, q \in SampleParts}

\* identifiers given to the builder as --tile_id: tiles of the grid, other
\* spellings of a grid corner, degrees out of range, and strings of another format
SampleIds ==
    {<<"N", "1", "0", "_", "W", "0", "6", "0">>,
     <<"S", "0", "1", "_", "E", "0", "0", "0">>,
     <<"N", "0", "0", "_", "E", "0", "0", "0">>,
     <<"S", "0", "0", "_", "E", "0", "0", "0">>,
     <<"N", "0", "0", "_", "W", "0", "0", "0">>,
     <<"S", "0", "0", "_", "W", "0", "0", "0">>,
     <<"N", "0", "1", "_", "E", "0", "0", "0">>,
     <<"S", "9", "0", "_", "E", "0", "0", "0">>,
     <<"N", "9", "0", "_", "W", "1", "8", "0">>,
     <<"S", "8", "9", "_", "E", "1", "7", "9">>,
     <<"N", "9", "1", "_", "E", "0", "0", "0">>,
     <<"N", "1", "0", "_", "E", "1", "8", "1">>,
     <<"N", "9", "9", "_", "E", "9", "9", "9">>,
     <<"S", "9", "0", "_", "W", "0", "0", "0">>,
     <<"N", "1", "0", "W", "0", "6", "0">>,
     <<"X", "1", "0", "_", "W", "0", "6", "0">>,
     <<"N", "1", "_", "W", "0", "6", "0">>,
     <<"N", "1", "0", "_", "W", "6", "0">>,
     <<"n", "1", "0", "_", "w", "0", "6", "0">>,
     <<>>,
     <<"N", "1", "0", "_", "W", "0", "6", "0", "\n">>,
     <<"N", "1", "0", "0", "_", "W", "0", "6", "0">>,
     <<"N", "1", "0", "_", "W", "0", "6", "0", "0">>}

NoId == << >>

NoTile == [error |-> "none"]

TileInit ==
    /\ t_id = NoId
    /\ t_tile = NoTile
    /\ t_cover = {}
    /\ \/ /\ t_pc = "point"
          /\ t_lon \in SampleLons
          /\ t_lat \in SampleLats
          /\ t_region = {}
       \/ /\ t_pc = "region"
          /\ t_lon = 0
          /\ t_lat = 0
          /\ t_region \in SampleRegions

\* the builder is started with --tile_id
TileInitId ==
    /\ t_pc = "id"
    /\ t_id \in SampleIds
    /\ t_lon = 0 /\ t_lat = 0 /\ t_region = {}
    /\ t_tile = NoTile
    /\ t_cover = {}

\* tile_id = _to_text(lon, lat)
ToText ==
    /\ t_pc = "point"
    /\ t_id' = _to_text(t_lon, t_lat)
    /\ t_pc' = "text"
    /\ UNCHANGED <<t_lon, t_lat, t_region, t_tile, t_cover, notTile>>

\* Tile(tile_id)
MakeTile ==
    /\ t_pc = "text"
    /\ t_tile' = Tile(t_id)
    /\ t_pc' = "tile"
    /\ UNCHANGED <<t_lon, t_lat, t_region, t_id, t_cover, notTile>>

\* covering_tiles, covering = get_covering_tiles_for_region(shape)
Covering ==
    /\ t_pc = "region"
    /\ t_cover' = get_covering_tiles_for_region(t_region)
    /\ t_pc' = "covered"
    /\ UNCHANGED <<t_lon, t_lat, t_region, t_id, t_tile, notTile>>

\* check_args: args.tile = Tile(args.tile_id); an exception of Tile is raised
\* again as ValueError
CheckArgs ==
    /\ t_pc = "id"
    /\ t_tile' = Tile(t_id)
    /\ t_pc' = "args"
    /\ UNCHANGED <<t_lon, t_lat, t_region, t_id, t_cover, notTile>>

TileNext == ToText \/ MakeTile \/ Covering \/ CheckArgs


InitTiles ==
    (TileInit \/ TileInitId) /\ RunIdle /\ CheckIdle /\ LoadIdle /\ CrossIdle
        /\ ShapeIdle /\ HashIdle /\ CatalogIdle /\ QueryIdle /\ JobsIdle /\ MergeIdle /\ CoverIdle

SpecTiles == InitTiles /\ [][TileNext]_vars

-----------------------------------------------------------------------------
(* Reconciliation run: tile_runner.py main, with the stores it reads and     *)
(* writes, the job platform, and the per-tile builder jobs                   *)
(* (gtiler/dps_tile_builder.py run_main)                                     *)

\* the tiles, granules and runs of the model
RunTiles == {"N01_E000", "N01_E001"}

RunGranules == {"O01234_01", "O05678_02"}

MaxRuns == 2

\* the granule_hash the catalog currently yields for every granule
CmrHash == "md5_a"

Assoc(t, g, h) == [tile |-> t, granule |-> g, hash |-> h]

MdRow(t, g, h, time) == [tile |-> t, granule |-> g, hash |-> h, time |-> time]

\* SELECT DISTINCT tile_id FROM read_parquet(md_spec), or set() without the prefix
existing_md_of(md) == {row.tile : row \in md}

\* covering_tiles.sjoin(cmr_md, how="inner", predicate="intersects")
tile_granule_join(covering_tiles, cmr) == {a \in cmr : a.tile \in covering_tiles}

\* tile_granule_gdf[~tile_granule_gdf.tile_id.isin(existing_md)] keyed by granule
\* instead of by tile
new_rows_ByGranule(tile_granule_gdf, md) ==
    {a \in tile_granule_gdf : a.granule \notin {row.granule : row \in md}}

\* the joined frame written whole, as on the branch without a metadata prefix
new_rows_Unfiltered(tile_granule_gdf, md) == tile_granule_gdf

\* tile_granule_gdf[~tile_granule_gdf.tile_id.isin(existing_md)]
new_rows(tile_granule_gdf, md) ==
    {a \in tile_granule_gdf : a.tile \notin existing_md_of(md)}

\* the data-without-metadata test looking only at the tiles of the region
wrong_tiles_InRegion(existing_tiles, existing_md, required_tiles) ==
    {x \in existing_tiles : x \notin existing_md /\ x \in required_tiles}

\* wrong = [x for x in existing_tiles if x not in existing_md]
wrong_tiles(existing_tiles, existing_md, required_tiles) ==
    {x \in existing_tiles : x \notin existing_md}

\* missing_tiles = [x for x in required_tiles if x not in existing_tiles]
missing_tiles_of(required_tiles, existing_tiles) ==
    {x \in required_tiles : x \notin existing_tiles}

\* the plan with the tiles that already have a job left out of the missing tiles
PlanOf_SkipStarted(covering_tiles, cmr) ==
    LET joined   == tile_granule_join(covering_tiles, cmr)
        required == {a.tile : a \in joined}
        started  == {j.tile : j \in r_jobs}
    IN [source         |-> joined,
        required_tiles |-> required,
        existing_md    |-> existing_md_of(r_md),
        existing_tiles |-> r_data,
        rows           |-> new_rows(joined, r_md),
        wrong          |-> wrong_tiles(r_data, existing_md_of(r_md), required),
        missing_tiles  |-> missing_tiles_of(required, r_data) \ started]

\* the plan with required_tiles taken from the covering tiles instead of from
\* the tiles that intersect a granule
PlanOf_AllCovering(covering_tiles, cmr) ==
    LET joined   == tile_granule_join(covering_tiles, cmr)
    IN [source         |-> joined,
        required_tiles |-> covering_tiles,
        existing_md    |-> existing_md_of(r_md),
        existing_tiles |-> r_data,
        rows           |-> new_rows(joined, r_md),
        wrong          |-> wrong_tiles(r_data, existing_md_of(r_md), covering_tiles),
        missing_tiles  |-> missing_tiles_of(covering_tiles, r_data)]

\* main, steps 1 to 3: what the run reads and the plan it prints
PlanOf(covering_tiles, cmr) ==
    LET joined   == tile_granule_join(covering_tiles, cmr)
        required == {a.tile : a \in joined}
    IN [source         |-> joined,
        required_tiles |-> required,
        existing_md    |-> existing_md_of(r_md),
        existing_tiles |-> r_data,
        rows           |-> new_rows(joined, r_md),
        wrong          |-> wrong_tiles(r_data, existing_md_of(r_md), required),
        missing_tiles  |-> missing_tiles_of(required, r_data)]

\* COPY tile_granule_gdf TO md_prefix (PARTITION_BY tile_id, OVERWRITE_OR_IGNORE):
\* the file of every partition written replaces the one of the same name
copy_to_metadata(md, rows, now) ==
    {row \in md : row.tile \notin {a.tile : a \in rows}}
        \cup {MdRow(a.tile, a.granule, a.hash, now) : a \in rows}

\* JobsManager.get_unstarted_tiles, with the four listings taken at once
StartedStatuses == {"Running", "Accepted", "Succeeded", "Offline"}

get_unstarted_tiles(tiles, jobs) ==
    {t \in tiles : ~\E j \in jobs : j.tile = t /\ j.status \in StartedStatuses}

\* JobsManager.manage: the tiles it submits a job for
\* (succeeded_subset has one row per Succeeded job of a tile of the list)
manage_submits(tiles, jobs) ==
    LET succeeded_subset == {j \in jobs : j.status = "Succeeded" /\ j.tile \in tiles}
    IN IF Cardinality(succeeded_subset) < Cardinality(tiles)
       THEN get_unstarted_tiles(tiles, jobs)
       ELSE {}

RECURSIVE SetToSeq(_)
SetToSeq(S) ==
    IF S = {} THEN << >>
    ELSE LET x == CHOOSE y \in S : TRUE IN <<x>> \o SetToSeq(S \ {x})

\* maap.submitJob for every tile of a set: new jobs, Accepted
submit_jobs(jobs, tiles) ==
    LET order == SetToSeq(tiles)
        base  == Cardinality(jobs)
    IN jobs \cup {[id |-> base + k, tile |-> order[k], status |-> "Accepted"] :
                     k \in 1..Len(order)}

\* sample contents of the catalog and of the metadata store, as sets of
\* (tile, granule) pairs: nothing, one pair, one tile with two granules, one
\* granule over two tiles, two tiles with a granule each, everything
SamplePairSets ==
    LET t1 == "N01_E000"
        t2 == "N01_E001"
        g1 == "O01234_01"
        g2 == "O05678_02"
    IN {{}, {<<t1, g1>>}, {<<t1, g1>>, <<t1, g2>>}, {<<t1, g1>>, <<t2, g1>>},
        {<<t2, g1>>, <<t1, g2>>}, RunTiles \X RunGranules}

\* what the catalog may hold when a run queries it
CatalogContents == {{Assoc(p[1], p[2], CmrHash) : p \in ps} : ps \in SamplePairSets}

\* main with `if args.dry_run: return` left out
run_outcome_NoDryRun(plan, dry_run) ==
    IF plan.wrong # {} THEN "exit_1" ELSE "none"

\* main, how the run goes on after the plan: exit(1) on data without metadata,
\* return under --dry_run, otherwise on to the write and the jobs
run_outcome(plan, dry_run) ==
    IF plan.wrong # {} THEN "exit_1"
    ELSE IF dry_run THEN "dry_run" ELSE "none"

RunInit ==
    /\ r_cmr = {}
    /\ r_md \in {{MdRow(p[1], p[2], CmrHash, 0) : p \in ps} : ps \in SamplePairSets}
    /\ r_data \in SUBSET RunTiles
    /\ r_jobs = {}
    /\ r_clock = 0
    /\ r_run = [pc |-> "idle"]
    /\ r_prev = [none |-> TRUE]

\* main up to `if args.dry_run: return`: query the catalog for the region (it
\* holds whatever has been published by now), scan the two stores, stop with
\* exit(1) on data without metadata, print the plan
RunPlan ==
    /\ r_run.pc \in {"idle", "ended"}
    /\ r_clock < MaxRuns
    /\ \E catalog \in CatalogContents,
          covering_tiles \in (SUBSET RunTiles) \ {{}}, dry_run \in BOOLEAN :
          /\ r_cmr' = catalog
          /\ r_clock' = r_clock + 1
          /\ LET plan == PlanOf(covering_tiles, catalog)
                 out  == run_outcome(plan, dry_run)
             IN r_run' = [pc          |-> IF out = "none" THEN "planned" ELSE "ended",
                          result      |-> out,
                          dry_run     |-> dry_run,
                          now         |-> r_clock + 1,
                          plan        |-> plan,
                          md_before   |-> r_md,
                          jobs_before |-> Cardinality(r_jobs),
                          written     |-> {},
                          handed      |-> {},
                          submitted   |-> {}]
          /\ r_prev' = IF r_run.pc = "idle" THEN r_prev
                       ELSE [none |-> FALSE, plan |-> r_run.plan,
                             md |-> r_run.md_before]
    /\ UNCHANGED <<r_md, r_data, r_jobs, notRun>>

\* main, `if len(tile_granule_gdf) > 0:` the one batched metadata write
RunWriteMetadata ==
    /\ r_run.pc = "planned"
    /\ IF r_run.plan.rows # {}
       THEN /\ r_md' = copy_to_metadata(r_md, r_run.plan.rows, r_run.now)
            /\ r_run' = [r_run EXCEPT !.pc = "written", !.written = r_run.plan.rows]
       ELSE /\ r_md' = r_md
            /\ r_run' = [r_run EXCEPT !.pc = "written"]
    /\ UNCHANGED <<r_cmr, r_data, r_jobs, r_clock, r_prev, notRun>>

\* main, step 4: JobsManager(tile_ids=missing_tiles).manage()
RunSubmitJobs ==
    /\ r_run.pc = "written"
    /\ LET tiles == r_run.plan.missing_tiles
           subs  == manage_submits(tiles, r_jobs)
       IN /\ r_jobs' = submit_jobs(r_jobs, subs)
          /\ r_run' = [r_run EXCEPT !.pc = "ended", !.result = "done",
                                    !.handed = tiles, !.submitted = subs]
    /\ UNCHANGED <<r_cmr, r_md, r_data, r_clock, r_prev, notRun>>

\* the platform starts an accepted job
JobStart ==
    /\ \E j \in r_jobs :
          /\ j.status = "Accepted"
          /\ r_jobs' = (r_jobs \ {j}) \cup {[j EXCEPT !.status = "Running"]}
    /\ UNCHANGED <<r_cmr, r_md, r_data, r_clock, r_run, r_prev, notRun>>

\* dps_tile_builder.run_main for the job's tile: load_tile_metadata fails when the
\* tile has no metadata file; reading a granule may fail; otherwise the shots in
\* the tile (there may be none) are written under data/tile_id=<tile>/
JobRun ==
    /\ \E j \in r_jobs :
          /\ j.status = "Running"
          /\ \E ok \in BOOLEAN, shots \in BOOLEAN :
                LET has_md == j.tile \in existing_md_of(r_md)
                    done   == ok /\ has_md
                IN /\ r_jobs' = (r_jobs \ {j}) \cup
                          {[j EXCEPT !.status = IF done THEN "Succeeded" ELSE "Failed"]}
                   /\ r_data' = IF done /\ shots THEN r_data \cup {j.tile} ELSE r_data
    /\ UNCHANGED <<r_cmr, r_md, r_clock, r_run, r_prev, notRun>>

RunNext == RunPlan \/ RunWriteMetadata \/ RunSubmitJobs \/ JobStart \/ JobRun

InitRunner ==
    RunInit /\ TileIdle /\ CheckIdle /\ LoadIdle /\ CrossIdle
        /\ ShapeIdle /\ HashIdle /\ CatalogIdle /\ QueryIdle /\ JobsIdle /\ MergeIdle /\ CoverIdle

SpecRunner == InitRunner /\ [][RunNext]_vars

-----------------------------------------------------------------------------
(* The consistency check: scripts/check_tiles.py, main *)

CmrHashNew == "md5_b"

CheckRow(t, g, h, k) == [tile |-> t, granule |-> g, hash |-> h, copy |-> k]

\* GROUP BY tile_id, granule_key HAVING COUNT(*) > 1: the groups with several rows
duplicate_groups(rows) ==
    {<<r.tile, r.granule>> : r \in {q \in rows :
        \E o \in rows : o.tile = q.tile /\ o.granule = q.granule /\ o # q}}

\* cmr_md JOIN existing_md USING (tile_id, granule_key) WHERE the hashes differ
mismatched(cmr, md) ==
    {[tile |-> c.tile, granule |-> c.granule] : c \in {a \in cmr :
        \E e \in md : e.tile = a.tile /\ e.granule = a.granule /\ e.hash # a.hash}}

\* cmr_md LEFT JOIN existing_md USING (tile_id, granule_key) WHERE e.granule_key IS NULL
missing_granules(cmr, md) ==
    {c \in cmr : ~\E e \in md : e.tile = c.tile /\ e.granule = c.granule}

CheckEnded(run, result, stage, reported) ==
    [run EXCEPT !.pc = "ended", !.result = result, !.stage = stage,
                !.reported = reported]

\* the store holds the sample pairs at the first hash, and may hold one of the
\* rows twice
CheckStores ==
    UNION {{{CheckRow(p[1], p[2], CmrHash, 1) : p \in ps}} \cup
           {{CheckRow(p[1], p[2], CmrHash, 1) : p \in ps} \cup
                {CheckRow(d[1], d[2], CmrHash, 2)} : d \in ps} : ps \in SamplePairSets}

NoFile == [exists |-> FALSE, rows |-> {}]

\* a file named {md_spec} in the working directory: none, or one that holds
\* rows of its own, without or with a repeated (tile, granule)
LiteralFiles ==
    {NoFile,
     [exists |-> TRUE, rows |-> {CheckRow("N01_E000", "O01234_01", CmrHash, 1)}],
     [exists |-> TRUE, rows |-> {CheckRow("N01_E000", "O01234_01", CmrHash, 1),
                                 CheckRow("N01_E000", "O01234_01", CmrHash, 2)}]}

CheckInit ==
    /\ c_md \in CheckStores
    /\ c_lit \in LiteralFiles
    /\ c_data \in SUBSET RunTiles
    /\ c_run = [pc |-> "idle"]

\* lines 14-44: the covering tiles of the region (args.shapefile is the path
\* string when main is entered from the command line, and the spatial join
\* rejects it), the catalog joined to them, the view over the stored metadata
CheckBegin ==
    /\ c_run.pc = "idle"
    /\ \E shape_is_frame \in BOOLEAN, covering_tiles \in (SUBSET RunTiles) \ {{}},
          ps \in SamplePairSets, changed \in SUBSET RunGranules :
          LET cmr == {Assoc(p[1], p[2],
                        IF p[2] \in changed THEN CmrHashNew ELSE CmrHash) : p \in ps}
              run == [pc |-> "validity", result |-> "none", stage |-> "begin",
                      covering_tiles |-> covering_tiles,
                      cmr_md |-> tile_granule_join(covering_tiles, cmr),
                      view |-> (c_md # {}),
                      reported |-> {}, diffed |-> FALSE, missing_tiles |-> {}]
          IN c_run' = IF shape_is_frame THEN run
                      ELSE CheckEnded(run, "TypeError", "begin", {})
    /\ UNCHANGED <<c_md, c_lit, c_data, notCheck>>

\* lines 45-57: the duplicate query reads the path '{md_spec}' as written (the
\* string is not an f-string), so it fails when no such file exists and counts
\* the groups of that file otherwise; the report prints the counts only
CheckValidity ==
    /\ c_run.pc = "validity"
    /\ c_run' = IF ~c_lit.exists
                THEN CheckEnded(c_run, "IOException", "validity", {})
                ELSE IF Cardinality(duplicate_groups(c_lit.rows)) > 0
                THEN CheckEnded(c_run, "ValueError", "validity", {})
                ELSE [c_run EXCEPT !.pc = "coverage"]
    /\ UNCHANGED <<c_md, c_lit, c_data, notCheck>>

\* lines 58-69: every covering tile must have stored metadata
CheckCoverage ==
    /\ c_run.pc = "coverage"
    /\ c_run' = IF ~c_run.view
                THEN CheckEnded(c_run, "CatalogException", "coverage", {})
                ELSE IF ~(c_run.covering_tiles \subseteq existing_md_of(c_md))
                THEN CheckEnded(c_run, "ValueError", "coverage", {})
                ELSE [c_run EXCEPT !.pc = "diff"]
    /\ UNCHANGED <<c_md, c_lit, c_data, notCheck>>

\* lines 71-110: the diff against the catalog; mismatched hashes are fatal and
\* their tiles are printed, otherwise the tiles with missing granules are listed
CheckDiff ==
    /\ c_run.pc = "diff"
    /\ LET bad == mismatched(c_run.cmr_md, c_md)
           run == [c_run EXCEPT !.diffed = TRUE]
       IN c_run' = IF Cardinality(bad) > 0
                   THEN CheckEnded(run, "ValueError", "diff", {m.tile : m \in bad})
                   ELSE [run EXCEPT !.pc = "move", !.missing_tiles =
                            {c.tile : c \in missing_granules(c_run.cmr_md, c_md)}]
    /\ UNCHANGED <<c_md, c_lit, c_data, notCheck>>

\* lines 112-117: the move loop; ducky has no tile_data_dir, so the first
\* iteration raises AttributeError before fs.mv is called
CheckMove ==
    /\ c_run.pc = "move"
    /\ c_run' = IF c_run.missing_tiles = {}
                THEN CheckEnded(c_run, "ok", "move", {})
                ELSE CheckEnded(c_run, "AttributeError", "move", {})
    /\ UNCHANGED <<c_md, c_lit, c_data, notCheck>>

CheckNext == CheckBegin \/ CheckValidity \/ CheckCoverage \/ CheckDiff \/ CheckMove

InitCheck ==
    CheckInit /\ TileIdle /\ RunIdle /\ LoadIdle /\ CrossIdle
        /\ ShapeIdle /\ HashIdle /\ CatalogIdle /\ QueryIdle /\ JobsIdle /\ MergeIdle /\ CoverIdle

SpecCheck == InitCheck /\ [][CheckNext]_vars

-----------------------------------------------------------------------------
(* The granule reader: gtiler/dps_tile_builder.py, load_granule_product *)

\* stands for the interpreter's recursion limit: the deepest frame cannot read
RecursionLimit == 4

GranuleUrls == {"s3://lp/GEDI02_A.h5", "s3://lp/GEDI02_B.h5", "s3://ornl/GEDI04_A.h5"}

LoadInit ==
    /\ l_pc = "idle"
    /\ l_url = "none"
    /\ l_readable \in SUBSET GranuleUrls
    /\ l_cred \in BOOLEAN
    /\ l_depth = 0
    /\ l_attempts = 0
    /\ l_result = "none"

\* load_granule calls load_granule_product(rfs, s3url, columns, tile)
LoadCall ==
    /\ l_pc = "idle"
    /\ \E s3url \in GranuleUrls : l_url' = s3url
    /\ l_pc' = "try"
    /\ l_depth' = 1
    /\ UNCHANGED <<l_readable, l_cred, l_attempts, l_result, notLoad>>

\* the temporary credentials run out while the call is in progress
CredentialsExpire ==
    /\ l_pc \in {"try", "except"}
    /\ l_cred
    /\ l_cred' = FALSE
    /\ UNCHANGED <<l_pc, l_url, l_readable, l_depth, l_attempts, l_result, notLoad>>

\* the try block of the innermost frame: open and read the file; a value
\* returned by the innermost frame is returned by every frame above it; any
\* Exception (RecursionError included) enters the except block
LoadRead ==
    /\ l_pc = "try"
    /\ IF l_depth >= RecursionLimit
       THEN /\ l_pc' = "raised"
            /\ l_result' = "RecursionError"
            /\ UNCHANGED l_attempts
       ELSE /\ l_attempts' = l_attempts + 1
            /\ IF l_cred /\ l_url \in l_readable
               THEN l_pc' = "returned" /\ l_result' = "frame"
               ELSE l_pc' = "except" /\ UNCHANGED l_result
    /\ UNCHANGED <<l_url, l_readable, l_cred, l_depth, notLoad>>

\* the except block: rfs.refresh(), then load_granule_product calls itself; an
\* exception of refresh is re-raised through every frame
LoadRefresh ==
    /\ l_pc = "except"
    /\ \E refreshed \in BOOLEAN :
          IF refreshed
          THEN /\ l_cred' = TRUE
               /\ l_depth' = l_depth + 1
               /\ l_pc' = "try"
               /\ UNCHANGED l_result
          ELSE /\ l_pc' = "raised"
               /\ l_result' = "ClientError"
               /\ UNCHANGED <<l_cred, l_depth>>
    /\ UNCHANGED <<l_url, l_readable, l_attempts, notLoad>>

LoadNext == LoadCall \/ CredentialsExpire \/ LoadRead \/ LoadRefresh

InitLoad ==
    LoadInit /\ TileIdle /\ RunIdle /\ CheckIdle /\ CrossIdle
        /\ ShapeIdle /\ HashIdle /\ CatalogIdle /\ QueryIdle /\ JobsIdle /\ MergeIdle /\ CoverIdle

SpecLoad == InitLoad /\ [][LoadNext]_vars

-----------------------------------------------------------------------------
(* The crossover finder: gtiler/database/query_lib/crossovers.py *)

(* The H3 grid is modelled as a grid of regular hexagons of edge EDGE_LENGTH,   *)
(* pointy side up.  Positions are integer pairs (X, Y): X counts steps of      *)
(* sqrt(3) * edge / (2 * LatticeRes) eastwards, Y counts steps of              *)
(* edge / (2 * LatticeRes) northwards.  The cell (q, r) has its centre at      *)
(* (LatticeRes * (2q + r), 3 * LatticeRes * r).                                *)

LatticeRes == 2

\* EDGE_LENGTH_M, in centimetres
EDGE_LENGTH_CM == 2866

\* the 5 m buffer of MAX_DISTANCE_M, in centimetres
BUFFER_CM == 500

\* k_ring
K_RING == 2

\* the largest separation of the sample shots, in centimetres
FarthestCm == 6000

ShotNumbers == {101, 202}

CellCentre(c) == <<LatticeRes * (2 * c[1] + c[2]), 3 * LatticeRes * c[2]>>

\* the position lies in the closed hexagon of the cell
InCell(X, Y, c) ==
    LET dx == Abs(X - CellCentre(c)[1])
        dy == Abs(Y - CellCentre(c)[2])
    IN dx <= LatticeRes /\ dy <= 2 * LatticeRes - dx

Cells == (-4..4) \X (-4..4)

\* h3_latlng_to_cell: a cell whose hexagon holds the position (a position on a
\* border is in one of the cells that share the border)
CellsOf(X, Y) == {c \in Cells : InCell(X, Y, c)}

\* the number of cell steps between two cells
grid_distance(c, d) ==
    LET dq == c[1] - d[1]
        dr == c[2] - d[2]
    IN Max2(Max2(Abs(dq), Abs(dr)), Abs(dq + dr))

\* h3_grid_disk with one ring only
h3_grid_disk_OneRing(c, k) == {d \in Cells : grid_distance(c, d) <= 1}

\* h3_grid_disk(h3_cell, k): the cells within k steps of the cell
h3_grid_disk(c, k) == {d \in Cells : grid_distance(c, d) <= k}

\* the squared distance of two positions is
\* (3 dX^2 + dY^2) * (edge / (2 * LatticeRes))^2; the comparison with cm^2 is
\* made on the whole number 3 dX^2 + dY^2
distance_within(a, b, cm) ==
    3 * (a.X - b.X) * (a.X - b.X) + (a.Y - b.Y) * (a.Y - b.Y)
    <= (4 * LatticeRes * LatticeRes * cm * cm) \div (EDGE_LENGTH_CM * EDGE_LENGTH_CM)

\* the threshold test without the buffer
threshold_accepted_NoBuffer(cm) ==
    16 * cm * cm < 67 * EDGE_LENGTH_CM * EDGE_LENGTH_CM

\* distance_threshold_m < MAX_DISTANCE_M, with
\* MAX_DISTANCE_M = sqrt(67)/4 * EDGE_LENGTH_M - 5, in integers
threshold_accepted(cm) ==
    16 * (cm + BUFFER_CM) * (cm + BUFFER_CM) < 67 * EDGE_LENGTH_CM * EDGE_LENGTH_CM

\* thresholds in centimetres: the default, the largest accepted, the smallest
\* rejected
SampleThresholds == {4000, 5364, 5365}

SampleColumns == {"None", "agbd_l4a"}

\* positions in the hexagon of cell (0, 0); the grid is mirror symmetric in both
\* axes, so the north-east quarter of the hexagon stands for the whole of it
HomePositions ==
    {p \in (0..LatticeRes) \X (0..2 * LatticeRes) : InCell(p[1], p[2], <<0, 0>>)}

\* offsets of the second shot from the first, up to FarthestCm
SampleOffsets ==
    {d \in (-3 * LatticeRes..3 * LatticeRes) \X (-5 * LatticeRes..5 * LatticeRes) :
        distance_within([X |-> d[1], Y |-> d[2]], [X |-> 0, Y |-> 0], FarthestCm)}

\* two shots with distinct shot numbers, in either file order; the first is in
\* cell (0, 0), the second anywhere around it, inside the region or not
CrossInit ==
    /\ \E p \in HomePositions, d \in SampleOffsets, first \in ShotNumbers,
          inside \in BOOLEAN :
          \E c \in CellsOf(p[1] + d[1], p[2] + d[2]) :
              /\ d = <<0, 0>> => c = <<0, 0>>
              /\ x_src = <<[shot |-> first, X |-> p[1], Y |-> p[2],
                            h3 |-> <<0, 0>>, inside |-> TRUE],
                           [shot |-> CHOOSE n \in ShotNumbers : n # first,
                            X |-> p[1] + d[1], Y |-> p[2] + d[2],
                            h3 |-> c, inside |-> inside]>>
    /\ x_run = [pc |-> "idle"]

\* lines 80-93: the region and the threshold are validated before any statement
\* is sent to the database
CrossCall ==
    /\ x_run.pc = "idle"
    /\ \E cm \in SampleThresholds, columns \in SampleColumns, large \in BOOLEAN :
          LET run == [pc |-> "load", threshold |-> cm, columns |-> columns,
                      result |-> "none", read |-> FALSE,
                      pts |-> << >>, pts_expanded |-> {}, pairs |-> {}]
          IN x_run' = IF large \/ ~threshold_accepted(cm)
                      THEN [run EXCEPT !.pc = "raised", !.result = "ValueError"]
                      ELSE run
    /\ UNCHANGED <<x_src, notCross>>

\* lines 95-124: pts, the shots inside the region with their cell
CrossLoad ==
    /\ x_run.pc = "load"
    /\ x_run' = [x_run EXCEPT !.pc = "expand", !.read = TRUE,
                              !.pts = SelectSeq(x_src, LAMBDA row : row.inside)]
    /\ UNCHANGED <<x_src, notCross>>

\* lines 126-133: pts_expanded, one row per shot and cell of its disk
CrossExpand ==
    /\ x_run.pc = "expand"
    /\ x_run' = [x_run EXCEPT !.pc = "join", !.pts_expanded =
                    {e \in [t1 : 1..Len(x_run.pts), cand_cell : Cells] :
                        e.cand_cell \in h3_grid_disk(x_run.pts[e.t1].h3, K_RING)}]
    /\ UNCHANGED <<x_src, notCross>>

\* lines 137-190: the join of pts_expanded with pts on the candidate cell, the
\* smaller shot number on side 1, then the distance filter; line 144 iterates
\* over columns and raises TypeError when columns is None
CrossJoin ==
    /\ x_run.pc = "join"
    /\ LET pts == x_run.pts
           joined == {m \in x_run.pts_expanded \X (1..Len(pts)) :
                        /\ pts[m[1].t1].shot < pts[m[2]].shot
                        /\ pts[m[2]].h3 = m[1].cand_cell}
           pairs == {[shot_number_1 |-> pts[m[1].t1].shot,
                      shot_number_2 |-> pts[m[2]].shot,
                      cand_cell |-> m[1].cand_cell] :
                        m \in {n \in joined :
                            distance_within(pts[n[1].t1], pts[n[2]], x_run.threshold)}}
       IN x_run' = IF x_run.columns = "None"
                   THEN [x_run EXCEPT !.pc = "raised", !.result = "TypeError"]
                   ELSE [x_run EXCEPT !.pc = "returned", !.result = "pairs",
                                      !.pairs = pairs]
    /\ UNCHANGED <<x_src, notCross>>

CrossNext == CrossCall \/ CrossLoad \/ CrossExpand \/ CrossJoin

InitCross ==
    CrossInit /\ TileIdle /\ RunIdle /\ CheckIdle /\ LoadIdle
        /\ ShapeIdle /\ HashIdle /\ CatalogIdle /\ QueryIdle /\ JobsIdle /\ MergeIdle /\ CoverIdle

SpecCross == InitCross /\ [][CrossNext]_vars

-----------------------------------------------------------------------------
(* Shape formatting: gtiler/common/shape_parser.py *)

\* A shape is a set of rows and a row's geometry a set of polygons: one polygon
\* for a Polygon, several for a MultiPolygon.  A polygon is the set of 1-degree
\* cells its exterior ring encloses (ext), the cells its interior rings enclose
\* (holes), the number of coordinates of its exterior ring (n) and the
\* direction of that ring (cw).  It covers the closure of ext \ holes.

CoarseStep == 5

MaxCoordsLimit == 500

world_maxx == 180

world_miny == -90

UnitCells(x0, y0, x1, y1) == {<<x, y>> : x \in x0..(x1 - 1), y \in y0..(y1 - 1)}

Polygon(ext, holes, n, cw) == [ext |-> ext, holes |-> holes, n |-> n, cw |-> cw]

PolygonCells(p) == p.ext \ p.holes

ShapeCells(shp) == UNION {UNION {PolygonCells(p) : p \in row} : row \in shp}

RECURSIVE n_exterior(_)
n_exterior(polys) ==
    IF polys = {} THEN 0
    ELSE LET p == CHOOSE q \in polys : TRUE
         IN  p.n + n_exterior(polys \ {p})

RECURSIVE get_n_coords(_)
get_n_coords(shp) ==
    IF shp = {} THEN 0
    ELSE LET row == CHOOSE r \in shp : TRUE
         IN  n_exterior(row) + get_n_coords(shp \ {row})

\* range(-180, 180, step) and range(90, -90, -step)
coarse_lons(step) ==
    {grid_minx + k * step : k \in 0..((world_maxx - grid_minx - 1) \div step)}

coarse_lats(step) ==
    {grid_maxy - k * step : k \in 0..((grid_maxy - world_miny - 1) \div step)}

\* The tile <<i, j>> is box(i, j - step, i + step, j).
CoarseCells(t, step) == UnitCells(t[1], t[2] - step, t[1] + step, t[2])

CellMeetsBox(c, t, step) ==
    /\ c[1] <= t[1] + step /\ c[1] + 1 >= t[1]
    /\ c[2] <= t[2] /\ c[2] + 1 >= t[2] - step

\* the tiles of the grid that meet the polygon's bounding box
TilesNear(p, step) ==
    LET xs == {c[1] : c \in p.ext}
        ys == {c[2] : c \in p.ext}
    IN  {<<i, j>> \in coarse_lons(step) \X coarse_lats(step) :
            /\ \E x \in xs : x <= i + step /\ x + 1 >= i
            /\ \E y \in ys : y <= j /\ y + 1 >= j - step}

\* sjoin(..., predicate="intersects"): the tile shares a point with the polygon
tiles_intersecting(p, step) ==
    {t \in TilesNear(p, step) :
        \E c \in PolygonCells(p) : CellMeetsBox(c, t, step)}

\* the same join with predicate="within": the tile lies inside the polygon
tiles_within(p, step) ==
    {t \in TilesNear(p, step) :
        /\ CoarseCells(t, step) \subseteq p.ext
        /\ \A c \in p.holes : ~CellMeetsBox(c, t, step)}

SharesEdge(t, u, step) ==
    \/ t[1] = u[1] /\ Abs(t[2] - u[2]) = step
    \/ t[2] = u[2] /\ Abs(t[1] - u[1]) = step

RECURSIVE grow(_, _, _)
grow(part, tiles, step) ==
    LET more == {t \in tiles \ part : \E u \in part : SharesEdge(t, u, step)}
    IN  IF more = {} THEN part ELSE grow(part \cup more, tiles, step)

\* the polygons of a union of tiles: tiles joined along edges make one polygon
RECURSIVE components(_, _)
components(tiles, step) ==
    IF tiles = {} THEN {}
    ELSE LET t == CHOOSE u \in tiles : TRUE
             c == grow({t}, tiles, step)
         IN  {c} \cup components(tiles \ c, step)

\* the tiles the exterior ring of a union polygon encloses: its own, and those
\* with tiles of the polygon on all four sides (exact for unions of rectangular
\* blocks with blocks cut out of their inside)
enclosed(part, step) ==
    LET is == {t[1] : t \in part}
        js == {t[2] : t \in part}
    IN  {t \in is \X js :
            \/ t \in part
            \/ /\ \E u \in part : u[2] = t[2] /\ u[1] < t[1]
               /\ \E u \in part : u[2] = t[2] /\ u[1] > t[1]
               /\ \E u \in part : u[1] = t[1] /\ u[2] < t[2]
               /\ \E u \in part : u[1] = t[1] /\ u[2] > t[2]}

Sides(step) == {<<step, 0>>, <<0 - step, 0>>, <<0, step>>, <<0, 0 - step>>}

\* the exterior ring of a union of tiles keeps every tile corner it passes:
\* one coordinate per tile side on the outline, and the closing coordinate
ring_coords(full, step) ==
    Cardinality({e \in full \X Sides(step) :
                    <<e[1][1] + e[2][1], e[1][2] + e[2][2]>> \notin full}) + 1

union_polygon(part, step) ==
    LET full == enclosed(part, step)
    IN  Polygon(UNION {CoarseCells(t, step) : t \in full},
                UNION {CoarseCells(t, step) : t \in full \ part},
                ring_coords(full, step), TRUE)

get_covering_region_for_shape_Within(shp, step) ==
    LET hit == UNION {UNION {tiles_within(p, step) : p \in row} : row \in shp}
    IN  {{union_polygon(part, step) : part \in components(hit, step)}}

get_covering_region_for_shape(shp, step) ==
    LET hit == UNION {UNION {tiles_intersecting(p, step) : p \in row} : row \in shp}
    IN  {{union_polygon(part, step) : part \in components(hit, step)}}

orient_shape(shp, exterior_cw) ==
    {{[p EXCEPT !.cw = exterior_cw] : p \in row} : row \in shp}

close_holes(shp) == {{[p EXCEPT !.holes = {}] : p \in row} : row \in shp}

\* check_and_format_shape from the count of the coordinates to the recount
Counted(result, shp, coarsened, n) ==
    [result |-> result, shp |-> shp, coarsened |-> coarsened, n_coords |-> n]

simplify_step_Always(shp, simplify, max_coords) ==
    LET n == get_n_coords(shp)
        covering == get_covering_region_for_shape(shp, CoarseStep)
        m == get_n_coords(covering)
    IN  IF n <= max_coords THEN Counted("ok", shp, FALSE, n)
        ELSE IF m > max_coords THEN Counted("ValueError", covering, TRUE, m)
        ELSE Counted("ok", covering, TRUE, m)

simplify_step(shp, simplify, max_coords) ==
    LET n == get_n_coords(shp)
        covering == get_covering_region_for_shape(shp, CoarseStep)
        m == get_n_coords(covering)
    IN  IF n <= max_coords THEN Counted("ok", shp, FALSE, n)
        ELSE IF ~simplify THEN Counted("DetailError", shp, FALSE, n)
        ELSE IF m > max_coords THEN Counted("ValueError", covering, TRUE, m)
        ELSE Counted("ok", covering, TRUE, m)

(* Inputs of check_and_format_shape *)

SampleBudgets == {8, 20, 501}

SampleCounts == {5, 12}

Small == UnitCells(1, 1, 3, 3)

Edge == UnitCells(0, 0, 2, 2)

Ring == UnitCells(-2, -2, 13, 13)

RingHole == UnitCells(-1, -1, 12, 12)

Pitted == UnitCells(1, 1, 4, 4)

Pit == UnitCells(2, 2, 3, 3)

GlobeCorner == UnitCells(176, -90, 180, -87)

Companions == {UnitCells(21, 21, 23, 23), UnitCells(6, 1, 8, 3), UnitCells(6, 6, 8, 8)}

SamplePolygons ==
    {Polygon(b[1], b[2], n, cw) :
        b \in {<<Small, {}>>, <<Edge, {}>>, <<Ring, RingHole>>,
               <<Pitted, Pit>>, <<GlobeCorner, {}>>},
        n \in SampleCounts, cw \in BOOLEAN}

SamplePolygonPairs ==
    {<<Polygon(Small, {}, n, TRUE), Polygon(far, {}, n, TRUE)>> :
        far \in Companions, n \in SampleCounts}

SampleShapes ==
    {{{p}} : p \in SamplePolygons}
        \cup {{{pq[1], pq[2]}} : pq \in SamplePolygonPairs}
        \cup {{{pq[1]}, {pq[2]}} : pq \in SamplePolygonPairs}

ShapeInit ==
    /\ s_shp \in SampleShapes
    /\ s_run = [pc |-> "start"]

ShapeRun(pc, simplify, max_coords, exterior_cw, counted, error) ==
    [pc |-> pc, simplify |-> simplify, max_coords |-> max_coords,
     exterior_cw |-> exterior_cw, n_in |-> get_n_coords(s_shp),
     shp |-> counted.shp, coarsened |-> counted.coarsened,
     n_coords |-> counted.n_coords, error |-> error]

\* check_and_format_shape is called: the check of max_coords
ShapeCall ==
    /\ s_run.pc = "start"
    /\ \E simplify \in BOOLEAN, max_coords \in SampleBudgets, exterior_cw \in BOOLEAN :
        LET kept == Counted("ok", s_shp, FALSE, get_n_coords(s_shp))
        IN  s_run' = IF max_coords > MaxCoordsLimit
                     THEN ShapeRun("raised", simplify, max_coords, exterior_cw,
                                   kept, "ValueError")
                     ELSE ShapeRun("count", simplify, max_coords, exterior_cw,
                                   kept, "none")
    /\ UNCHANGED <<s_shp, notShape>>

\* the count of the coordinates, the coarsening and the recount
ShapeSimplify ==
    /\ s_run.pc = "count"
    /\ LET counted == simplify_step(s_shp, s_run.simplify, s_run.max_coords)
       IN  s_run' = IF counted.result = "ok"
                    THEN ShapeRun("format", s_run.simplify, s_run.max_coords,
                                  s_run.exterior_cw, counted, "none")
                    ELSE ShapeRun("raised", s_run.simplify, s_run.max_coords,
                                  s_run.exterior_cw, counted, counted.result)
    /\ UNCHANGED <<s_shp, notShape>>

\* close_holes, orient_shape and the return
ShapeFormat ==
    /\ s_run.pc = "format"
    /\ s_run' = [s_run EXCEPT
                    !.pc = "returned",
                    !.shp = orient_shape(close_holes(s_run.shp), s_run.exterior_cw)]
    /\ UNCHANGED <<s_shp, notShape>>

ShapeNext == ShapeCall \/ ShapeSimplify \/ ShapeFormat

InitShape ==
    ShapeInit /\ TileIdle /\ RunIdle /\ CheckIdle /\ LoadIdle /\ CrossIdle /\ HashIdle
        /\ CatalogIdle /\ QueryIdle /\ JobsIdle /\ MergeIdle /\ CoverIdle

SpecShape == InitShape /\ [][ShapeNext]_vars

-----------------------------------------------------------------------------
(* The granule fingerprint: gtiler/common/granule_metadata.py, hash_string_list *)

\* A filename is a sequence of characters, a list of filenames a sequence of
\* filenames.

\* f"{len(item)}:{item}"
length_prefixed(item) == DecimalDigits(Len(item)) \o <<":">> \o item

\* ",".join(items)
RECURSIVE join_comma(_)
join_comma(items) ==
    IF Len(items) = 0 THEN << >>
    ELSE IF Len(items) = 1 THEN items[1]
    ELSE items[1] \o <<",">> \o join_comma(Tail(items))

\* hashlib.md5(text).hexdigest(): the digest stands for the text it was made
\* of, a digest function without collisions
md5(text) == [md5 |-> text]

hash_string_list_Plain(string_list) == md5(join_comma(string_list))

hash_string_list(string_list) ==
    LET joined == join_comma([k \in 1..Len(string_list) |->
                                 length_prefixed(string_list[k])])
    IN  md5(joined)

(* Inputs of hash_string_list *)

NameChars == {",", ":", "1"}

TenOnes == [k \in 1..10 |-> "1"]

SampleNames ==
    {<< >>} \cup {<<c>> : c \in NameChars}
            \cup {<<c, d>> : c \in NameChars, d \in NameChars}
            \cup {TenOnes, <<"0", ":">> \o TenOnes}

SampleLists ==
    {<< >>} \cup {<<x>> : x \in SampleNames}
            \cup {<<x, y>> : x \in SampleNames, y \in SampleNames}

HashInit ==
    /\ h_a \in SampleLists
    /\ h_b \in SampleLists
    /\ h_out = [pc |-> "start"]

\* hash_string_list is applied to both lists
HashBoth ==
    /\ h_out.pc = "start"
    /\ h_out' = [pc |-> "hashed", of_a |-> hash_string_list(h_a),
                                  of_b |-> hash_string_list(h_b)]
    /\ UNCHANGED <<h_a, h_b, notHash>>

HashNext == HashBoth

InitHash ==
    HashInit /\ TileIdle /\ RunIdle /\ CheckIdle /\ LoadIdle /\ CrossIdle /\ ShapeIdle
        /\ CatalogIdle /\ QueryIdle /\ JobsIdle /\ MergeIdle /\ CoverIdle

SpecHash == InitHash /\ [][HashNext]_vars

-----------------------------------------------------------------------------
(* The granule catalog: gtiler/common/granule_metadata.py, get_granule_metadata *)

\* The products whose url columns the aggregation names
AggregatedProducts == {"level2A", "level2B", "level4A", "level4C"}

ProductLetter(product) ==
    CASE product = "level2A" -> "A"
      [] product = "level2B" -> "B"
      [] product = "level4A" -> "C"
      [] product = "level4C" -> "D"

\* A filename holds its product, orbit, sub-orbit granule and version:
\* <product letter> O <orbit> G <sub-orbit granule> V <version>.
FileName(product, orbit, version) ==
    <<ProductLetter(product), "O", orbit, "G", "1", "V", version>>

\* f"{parsed.orbit}_{parsed.sub_orbit_granule}"
get_granule_key_for_filename(filename) == <<filename[3], "_", filename[5]>>

\* a row of the answer of cmr_query.query
Hit(product, orbit, version) ==
    [granule_name |-> FileName(product, orbit, version),
     granule_url  |-> <<"s", "3", ":">> \o FileName(product, orbit, version),
     granule_size |-> 10 + DigitValue(version)]

\* lines 40-42: the key and product columns, the url column named after the product
rows_of(product, hits) ==
    [k \in 1..Len(hits) |->
        [granule_name |-> hits[k].granule_name,
         granule_size |-> hits[k].granule_size,
         granule_key  |-> get_granule_key_for_filename(hits[k].granule_name),
         product      |-> product,
         url          |-> hits[k].granule_url]]

\* pd.concat(md_list): the rows of each product's answer, in the order of products
RECURSIVE concat_products(_, _)
concat_products(products, cmr) ==
    IF Len(products) = 0 THEN << >>
    ELSE rows_of(products[1], cmr[products[1]])
            \o concat_products(Tail(products), cmr)

GroupOf(md, key) == SelectSeq(md, LAMBDA row : row.granule_key = key)

KeysOf(md) == {md[k].granule_key : k \in 1..Len(md)}

\* md.groupby("granule_key")["product"].count()
nprod_Rows(md, key) == Len(GroupOf(md, key))

\* md.groupby("granule_key")["product"].nunique()
nprod(md, key) ==
    LET group == GroupOf(md, key)
    IN  Cardinality({group[k].product : k \in 1..Len(group)})

\* lines 50-55: the rows of the granules that have every product
complete_rows(md, products) ==
    LET omit == {key \in KeysOf(md) : nprod(md, key) # Len(products)}
    IN  SelectSeq(md, LAMBDA row : row.granule_key \notin omit)

RECURSIVE sum_sizes(_)
sum_sizes(group) ==
    IF Len(group) = 0 THEN 0 ELSE group[1].granule_size + sum_sizes(Tail(group))

\* "first": the first value of the column that is not null
first_url(group, product) ==
    LET own == SelectSeq(group, LAMBDA row : row.product = product)
    IN  IF Len(own) = 0 THEN << >> ELSE own[1].url

\* lines 57-69: one row per granule key
aggregate(md) ==
    {LET group == GroupOf(md, key)
         names == [k \in 1..Len(group) |-> group[k].granule_name]
     IN  [granule_key   |-> key,
          granule_size  |-> sum_sizes(group),
          granule_names |-> names,
          urls          |-> [p \in AggregatedProducts |-> first_url(group, p)],
          granule_hash  |-> hash_string_list(names)]
     : key \in KeysOf(md)}

ListedProducts(products) == {products[k] : k \in 1..Len(products)}

(* Inputs of get_granule_metadata *)

SampleProductLists ==
    {<<"level2A", "level2B", "level4A", "level4C">>,
     <<"level4C", "level4A", "level2B", "level2A">>,
     <<"level2A", "level2B">>}

\* what the catalog answers for one product
SampleAnswers(product) ==
    {<< >>,
     <<Hit(product, "1", "1")>>,
     <<Hit(product, "1", "1"), Hit(product, "2", "1")>>,
     <<Hit(product, "1", "1"), Hit(product, "1", "2")>>,
     <<Hit(product, "1", "2"), Hit(product, "1", "1")>>}

CatalogInit ==
    /\ g_products \in SampleProductLists
    /\ g_cmr \in {[p \in AggregatedProducts |->
                        CASE p = "level2A" -> a [] p = "level2B" -> b
                          [] p = "level4A" -> c [] p = "level4C" -> d] :
                    a \in SampleAnswers("level2A"), b \in SampleAnswers("level2B"),
                    c \in SampleAnswers("level4A"), d \in SampleAnswers("level4C")}
    /\ g_run = [pc |-> "start"]

\* lines 28-47: one catalog query per product, and the concatenation
CatalogQuery ==
    /\ g_run.pc = "start"
    /\ g_run' = [pc |-> "joined", md |-> concat_products(g_products, g_cmr)]
    /\ UNCHANGED <<g_products, g_cmr, notCatalog>>

\* lines 49-56: granules without every product are dropped
CatalogFilter ==
    /\ g_run.pc = "joined"
    /\ g_run' = [pc |-> "filtered", md |-> complete_rows(g_run.md, g_products)]
    /\ UNCHANGED <<g_products, g_cmr, notCatalog>>

\* lines 57-72: the aggregation, which needs the url column of each of the four
\* products, the fingerprint and the return
CatalogGroup ==
    /\ g_run.pc = "filtered"
    /\ g_run' = IF AggregatedProducts \subseteq ListedProducts(g_products)
                THEN [pc |-> "returned", md |-> aggregate(g_run.md)]
                ELSE [pc |-> "raised", md |-> g_run.md, error |-> "KeyError"]
    /\ UNCHANGED <<g_products, g_cmr, notCatalog>>

CatalogNext == CatalogQuery \/ CatalogFilter \/ CatalogGroup

InitCatalog ==
    CatalogInit /\ TileIdle /\ RunIdle /\ CheckIdle /\ LoadIdle /\ CrossIdle
                /\ ShapeIdle /\ HashIdle /\ QueryIdle /\ JobsIdle /\ MergeIdle /\ CoverIdle

SpecCatalog == InitCatalog /\ [][CatalogNext]_vars

-----------------------------------------------------------------------------
(* The catalog query: gtiler/common/cmr_query.py, query *)

MaxPages == 5

\* An entry of response.json()["feed"]["entry"].  The collections queried are
\* those of CMR_PROJECT_IDS, held by LPCLOUD or ORNL_CLOUD.
Entry(k, center, online, polygons, links) ==
    [producer_granule_id |-> <<"f", k>>,
     title               |-> <<"c", <<"f", k>>, "h5">>,
     data_center         |-> center,
     online_access_flag  |-> online,
     granule_size        |-> 10 + k,
     polygons            |-> polygons,
     links               |-> links]

S3Link == [href |-> "s3://", title |-> "This link provides direct download access via S3"]

HttpsLink == [href |-> "https://", title |-> "Download"]

SampleEntries ==
    <<Entry(1, "LPCLOUD", TRUE, TRUE, <<HttpsLink, S3Link>>),
      Entry(2, "ORNL_CLOUD", TRUE, TRUE, <<HttpsLink>>),
      Entry(3, "LPCLOUD", FALSE, TRUE, <<HttpsLink, S3Link>>),
      Entry(4, "ORNL_CLOUD", TRUE, FALSE, <<S3Link>>)>>

SamplePages ==
    {<< >>} \cup {<<SampleEntries[k]>> : k \in 1..4}
            \cup {<<SampleEntries[1], SampleEntries[2]>>,
                  <<SampleEntries[3], SampleEntries[1]>>,
                  <<SampleEntries[4], SampleEntries[2]>>}

SampleCatalogPages ==
    {<< >>} \cup {<<p>> : p \in SamplePages}
            \cup {<<p, q>> : p \in SamplePages, q \in SamplePages}
            \cup {<<p, q, r>> : p \in SamplePages, q \in SamplePages, r \in SamplePages}

\* what the catalog answers to a request for page n: its page n, past its last
\* page nothing, or its last page again if it takes no notice of page_num
answer(cat, n) ==
    IF n <= Len(cat.pages) THEN cat.pages[n]
    ELSE IF cat.endless /\ Len(cat.pages) > 0 THEN cat.pages[Len(cat.pages)]
    ELSE << >>

\* lines 125-128
granule_name_of(g) ==
    IF g.data_center = "LPCLOUD" THEN g.producer_granule_id ELSE g.title[2]

\* lines 153-163: the first link of the wanted kind, or ""
granule_url_of(g, use_cloud) ==
    LET wanted == SelectSeq(g.links, LAMBDA link :
                      IF use_cloud THEN link.href = "s3://"
                                   ELSE link.title = "Download")
    IN  IF Len(wanted) = 0 THEN "" ELSE wanted[1].href

\* lines 119-168: entries that are not online are skipped
_parse_granules_All(granules, use_cloud) ==
    [k \in 1..Len(granules) |->
        [granule_name |-> granule_name_of(granules[k]),
         granule_url  |-> granule_url_of(granules[k], use_cloud),
         granule_size |-> granules[k].granule_size,
         granule_poly |-> IF granules[k].polygons THEN "MultiPolygon" ELSE ""]]

_parse_granules(granules, use_cloud) ==
    LET online == SelectSeq(granules, LAMBDA g : g.online_access_flag)
    IN  [k \in 1..Len(online) |->
            [granule_name |-> granule_name_of(online[k]),
             granule_url  |-> granule_url_of(online[k], use_cloud),
             granule_size |-> online[k].granule_size,
             granule_poly |-> IF online[k].polygons THEN "MultiPolygon" ELSE ""]]

\* line 232
with_polygon(granule_array) == SelectSeq(granule_array, LAMBDA row : row.granule_poly # "")

QueryInit ==
    /\ q_cat \in [pages : SampleCatalogPages, fails_at : 0..3, endless : BOOLEAN]
    /\ q_run = [pc |-> "start"]

QueryRun(pc, use_cloud, page_num, requested, granule_array, result) ==
    [pc |-> pc, use_cloud |-> use_cloud, page_num |-> page_num,
     requested |-> requested, granule_array |-> granule_array, result |-> result]

\* lines 202-207
QueryCall ==
    /\ q_run.pc = "start"
    /\ \E use_cloud \in BOOLEAN :
        q_run' = QueryRun("loop", use_cloud, 1, << >>, << >>, "none")
    /\ UNCHANGED <<q_cat, notQuery>>

\* lines 208-226: one turn of the loop
QueryPage ==
    /\ q_run.pc = "loop"
    /\ q_run.page_num <= MaxPages
    /\ LET n == q_run.page_num
           requested == Append(q_run.requested, n)
           granules == answer(q_cat, n)
       IN  q_run' =
             IF q_cat.fails_at = n
             THEN QueryRun("raised", q_run.use_cloud, n, requested,
                           q_run.granule_array, "HTTPError")
             ELSE IF Len(granules) > 0
             THEN QueryRun("loop", q_run.use_cloud, n + 1, requested,
                           q_run.granule_array \o _parse_granules(granules, q_run.use_cloud),
                           "none")
             ELSE QueryRun("break", q_run.use_cloud, n, requested,
                           q_run.granule_array, "none")
    /\ UNCHANGED <<q_cat, notQuery>>

\* lines 228-233
QueryReturn ==
    /\ q_run.pc = "break"
    /\ q_run' = [q_run EXCEPT !.pc = "returned",
                              !.result = with_polygon(q_run.granule_array)]
    /\ UNCHANGED <<q_cat, notQuery>>

QueryNext == QueryCall \/ QueryPage \/ QueryReturn

InitQuery ==
    QueryInit /\ TileIdle /\ RunIdle /\ CheckIdle /\ LoadIdle /\ CrossIdle
        /\ ShapeIdle /\ HashIdle /\ CatalogIdle /\ JobsIdle /\ MergeIdle /\ CoverIdle

\* the interpreter keeps running the call
SpecQuery == InitQuery /\ [][QueryNext]_vars /\ WF_vars(QueryNext)

-----------------------------------------------------------------------------
(* The jobs manager: gtiler/common/jobs_manager.py, JobsManager *)

\* A job code is a sequence of characters; a tag is the job name submit_new_jobs
\* gives: tiler_<job_code>_<job_iteration>_<tile_id>.
jobs_prefix(job_code) == <<"tiler", "_">> \o job_code

jobs_name(job_code, job_iteration) == jobs_prefix(job_code) \o <<"_", job_iteration>>

job_tag(job_code, job_iteration, tile_id) ==
    jobs_name(job_code, job_iteration) \o <<"_", tile_id>>

\* str.startswith
startswith(text, prefix) ==
    /\ Len(text) >= Len(prefix)
    /\ SubSeq(text, 1, Len(prefix)) = prefix

\* the tag names the campaign: tiler_<job_code>_ and then the iteration
tag_of_campaign(tag, job_code) == startswith(tag, jobs_prefix(job_code) \o <<"_">>)

Job(job_code, tile_id, status) ==
    [tag |-> job_tag(job_code, "1", tile_id), tile_id |-> tile_id, status |-> status]

\* _fetch_jobs with the listing taken at once: the ids of the jobs in the
\* status whose tag starts with the prefix
_fetch_jobs(jobs, job_code, status) ==
    {k \in 1..Len(jobs) :
        /\ jobs[k].status = status
        /\ startswith(jobs[k].tag, jobs_prefix(job_code))}

\* _tabify_jobs(...).index: the tiles of the jobs listed
tabify_index(jobs, ids) == {jobs[k].tile_id : k \in ids}

\* line 75: the rows of succeeded_jobs whose tile is in the list, one per job
succeeded_subset(jobs, ids, tiles) == {k \in ids : jobs[k].tile_id \in tiles}

ActiveJobs(jobs) == {k \in 1..Len(jobs) : jobs[k].status \in {"Accepted", "Running"}}

(* Inputs *)

ManagerTiles == {"N01_E000", "N01_E001"}

SampleJobCodes == {<<"a">>, <<"a", "b">>}

JobStatuses == {"Running", "Failed", "Accepted", "Succeeded", "Offline", "Deleted"}

SampleJobs ==
    {Job(<<"a">>, t, s) : t \in ManagerTiles, s \in JobStatuses}
        \cup {Job(<<"a", "b">>, t, s) : t \in ManagerTiles, s \in {"Succeeded", "Running"}}
        \cup {Job(<<"b">>, "N01_E000", "Succeeded")}

JobsInit ==
    /\ j_jobs \in {<< >>} \cup {<<j>> : j \in SampleJobs}
                          \cup {<<j, k>> : j \in SampleJobs, k \in SampleJobs}
    /\ \E job_code \in SampleJobCodes, tiles \in {{"N01_E000"}, ManagerTiles} :
        j_mgr = [pc |-> "start", job_code |-> job_code, tiles |-> tiles]

Manager(pc, succeeded, listed, started, active_first, active_last, submitted) ==
    [pc |-> pc, job_code |-> j_mgr.job_code, tiles |-> j_mgr.tiles,
     succeeded |-> succeeded, listed |-> listed, started |-> started,
     active_first |-> active_first, active_last |-> active_last,
     submitted |-> submitted]

\* manage, lines 73-82: the Succeeded listing and the decision
MgrManage ==
    /\ j_mgr.pc = "start"
    /\ LET ids == _fetch_jobs(j_jobs, j_mgr.job_code, "Succeeded")
           subset == succeeded_subset(j_jobs, ids, j_mgr.tiles)
       IN  j_mgr' = Manager(IF Cardinality(subset) < Cardinality(j_mgr.tiles)
                            THEN "list_running" ELSE "returned",
                            ids, ids, {}, {}, {}, {})
    /\ UNCHANGED <<j_jobs, notJobs>>

\* one listing of get_unstarted_tiles: the manager after it
after_listing(pc, status, next) ==
    LET ids == _fetch_jobs(j_jobs, j_mgr.job_code, status)
    IN  [j_mgr EXCEPT
            !.pc = next,
            !.listed = @ \cup ids,
            !.started = @ \cup tabify_index(j_jobs, ids),
            !.active_first = IF pc = "list_running" THEN ActiveJobs(j_jobs) ELSE @,
            !.active_last = IF pc = "list_offline" THEN ActiveJobs(j_jobs) ELSE @]

\* line 85
MgrListRunning ==
    /\ j_mgr.pc = "list_running"
    /\ j_mgr' = after_listing("list_running", "Running", "list_accepted")
    /\ UNCHANGED <<j_jobs, notJobs>>

\* line 86
MgrListAccepted ==
    /\ j_mgr.pc = "list_accepted"
    /\ j_mgr' = after_listing("list_accepted", "Accepted", "list_succeeded")
    /\ UNCHANGED <<j_jobs, notJobs>>

\* line 87
MgrListSucceeded ==
    /\ j_mgr.pc = "list_succeeded"
    /\ j_mgr' = after_listing("list_succeeded", "Succeeded", "list_offline")
    /\ UNCHANGED <<j_jobs, notJobs>>

\* line 88
MgrListOffline ==
    /\ j_mgr.pc = "list_offline"
    /\ j_mgr' = after_listing("list_offline", "Offline", "submit")
    /\ UNCHANGED <<j_jobs, notJobs>>

\* lines 89-124 and line 82: a job for every tile not started, then exit(0)
MgrSubmit ==
    /\ j_mgr.pc = "submit"
    /\ LET unstarted == SetToSeq(j_mgr.tiles \ j_mgr.started)
       IN  /\ j_jobs' = j_jobs \o [k \in 1..Len(unstarted) |->
                                     Job(j_mgr.job_code, unstarted[k], "Accepted")]
           /\ j_mgr' = [j_mgr EXCEPT !.pc = "exited",
                                     !.submitted = j_mgr.tiles \ j_mgr.started]
    /\ UNCHANGED notJobs

\* the platform moves a job on while the manager is at work
PlatformAdvance ==
    /\ j_mgr.pc \in {"list_running", "list_accepted", "list_succeeded",
                     "list_offline", "submit"}
    /\ \E k \in 1..Len(j_jobs) :
        \E status \in JobStatuses :
            /\ \/ j_jobs[k].status = "Accepted" /\ status = "Running"
               \/ j_jobs[k].status = "Running" /\ status \in {"Succeeded", "Failed"}
            /\ j_jobs' = [j_jobs EXCEPT ![k].status = status]
    /\ UNCHANGED <<j_mgr, notJobs>>

JobsNext ==
    \/ MgrManage
    \/ MgrListRunning
    \/ MgrListAccepted
    \/ MgrListSucceeded
    \/ MgrListOffline
    \/ MgrSubmit
    \/ PlatformAdvance

InitJobs ==
    JobsInit /\ TileIdle /\ RunIdle /\ CheckIdle /\ LoadIdle /\ CrossIdle
        /\ ShapeIdle /\ HashIdle /\ CatalogIdle /\ QueryIdle /\ MergeIdle /\ CoverIdle

SpecJobs == InitJobs /\ [][JobsNext]_vars

-----------------------------------------------------------------------------
(* Update of the tiled database: update_tiles.py, with the tile_runner runs and
   the builder jobs its procedure relies on *)

\* the database under <prefix> and the one under <prefix>_updates
Databases == {"main", "updates"}

MaxUpdateRuns == 2

\* the columns of the metadata rows tile_runner writes: those of covering_tiles,
\* those of _get_granule_metadata, granule_geometry and cmr_access_time
MdColumns ==
    {"tile_id", "geometry", "granule_key", "granule_size", "granule_names",
     "level2A_url", "level2B_url", "level4A_url", "level4C_url", "granule_hash",
     "granule_geometry", "cmr_access_time"}

\* the columns the ranking query of update_tiles partitions and orders by
RankColumns == {"granule_id", "tile_id", "cmr_access_time"}

\* read_parquet(md_spec) finds no file under an empty metadata prefix, and a
\* query binds only when the columns it names exist
merge_query_runs(existing_md, update_md) ==
    /\ existing_md # {}
    /\ update_md # {}
    /\ RankColumns \subseteq MdColumns

\* full_md: of the rows of both tables with the same granule and tile, the one
\* with the most recent cmr_access_time
full_md(existing_md, update_md) ==
    LET CombinedData == existing_md \cup update_md
    IN {row \in CombinedData :
           ~\E o \in CombinedData :
               o.tile = row.tile /\ o.granule = row.granule /\ o.time > row.time}

\* tile_runner main, not a dry run, on one database: what it leaves in the
\* database and in the job list
tile_runner_main(db, jobs, cmr, covering_tiles, now) ==
    LET joined   == tile_granule_join(covering_tiles, cmr)
        required == {a.tile : a \in joined}
        rows     == new_rows(joined, db.md)
        wrong    == wrong_tiles(db.data, existing_md_of(db.md), required)
        missing  == missing_tiles_of(required, db.data)
    IN IF wrong # {}
       THEN [db |-> db, jobs |-> jobs]
       ELSE [db   |-> [db EXCEPT !.md = IF rows = {} THEN db.md
                                        ELSE copy_to_metadata(db.md, rows, now)],
             jobs |-> submit_jobs(jobs, manage_submits(missing, jobs))]

MergeInit ==
    /\ u_store = [d \in Databases |-> [md |-> {}, data |-> {}]]
    /\ u_jobs = [d \in Databases |-> {}]
    /\ u_old = {}
    /\ u_upd = [pc |-> "idle", save_md |-> FALSE]
    /\ u_clock = 0

\* a tile_runner run on the main database
RunOnMain ==
    /\ u_clock < MaxUpdateRuns
    /\ \E catalog \in CatalogContents, covering_tiles \in (SUBSET RunTiles) \ {{}} :
          LET out == tile_runner_main(u_store["main"], u_jobs["main"], catalog,
                                      covering_tiles, u_clock + 1)
          IN /\ u_store' = [u_store EXCEPT !["main"] = out.db]
             /\ u_jobs' = [u_jobs EXCEPT !["main"] = out.jobs]
    /\ u_clock' = u_clock + 1
    /\ UNCHANGED <<u_old, u_upd, notMerge>>

\* update_tiles main, step 1: print the tile_runner command for <prefix>_updates
\* and wait at input()
UpdStart ==
    /\ u_upd.pc = "idle"
    /\ \E save_md \in BOOLEAN : u_upd' = [pc |-> "building", save_md |-> save_md]
    /\ UNCHANGED <<u_store, u_jobs, u_old, u_clock, notMerge>>

\* the command printed by step 1: a tile_runner run on <prefix>_updates with
\* the years to update
RunOnUpdates ==
    /\ u_upd.pc = "building"
    /\ u_clock < MaxUpdateRuns
    /\ \E catalog \in CatalogContents, covering_tiles \in (SUBSET RunTiles) \ {{}} :
          LET out == tile_runner_main(u_store["updates"], u_jobs["updates"], catalog,
                                      covering_tiles, u_clock + 1)
          IN /\ u_store' = [u_store EXCEPT !["updates"] = out.db]
             /\ u_jobs' = [u_jobs EXCEPT !["updates"] = out.jobs]
    /\ u_clock' = u_clock + 1
    /\ UNCHANGED <<u_old, u_upd, notMerge>>

\* dps_tile_builder.run_main for one job of either database: load_tile_metadata
\* fails when the tile has no metadata file; reading a granule may fail;
\* otherwise the shots in the tile (there may be none) are written under data/
BuilderJob ==
    /\ \E d \in Databases : \E j \in u_jobs[d] :
          /\ j.status = "Accepted"
          /\ \E ok \in BOOLEAN, shots \in BOOLEAN :
                LET has_md == j.tile \in existing_md_of(u_store[d].md)
                    done   == ok /\ has_md
                IN /\ u_jobs' = [u_jobs EXCEPT ![d] = (@ \ {j}) \cup
                          {[j EXCEPT !.status = IF done THEN "Succeeded" ELSE "Failed"]}]
                   /\ u_store' = IF done /\ shots
                                 THEN [u_store EXCEPT ![d].data = @ \cup {j.tile}]
                                 ELSE u_store
    /\ UNCHANGED <<u_old, u_upd, u_clock, notMerge>>

\* update_tiles main, step 2, once the jobs of step 1 are over:
\* aws s3 mv <prefix>_updates/data <prefix>/data --recursive
UpdMoveData ==
    /\ u_upd.pc = "building"
    /\ \A j \in u_jobs["updates"] : j.status # "Accepted"
    /\ u_store' = [u_store EXCEPT
                      !["main"].data = @ \cup u_store["updates"].data,
                      !["updates"].data = {}]
    /\ u_upd' = [u_upd EXCEPT !.pc = "moved"]
    /\ UNCHANGED <<u_jobs, u_old, u_clock, notMerge>>

\* update_tiles main, step 3 under --save_md: aws s3 cp metadata metadata_old
UpdSaveMd ==
    /\ u_upd.pc = "moved"
    /\ u_upd.save_md
    /\ u_old' = u_store["main"].md
    /\ u_upd' = [u_upd EXCEPT !.pc = "saved"]
    /\ UNCHANGED <<u_store, u_jobs, u_clock, notMerge>>

\* update_tiles main, step 3: read both metadata tables, rank, and COPY full_md
\* over the main metadata; a query that fails ends main with the error
UpdMergeMd ==
    /\ \/ u_upd.pc = "saved"
       \/ u_upd.pc = "moved" /\ ~u_upd.save_md
    /\ LET existing_md == u_store["main"].md
           update_md   == u_store["updates"].md
       IN IF merge_query_runs(existing_md, update_md)
          THEN /\ u_store' = [u_store EXCEPT
                                 !["main"].md = full_md(existing_md, update_md)]
               /\ u_upd' = [u_upd EXCEPT !.pc = "merged"]
          ELSE /\ u_store' = u_store
               /\ u_upd' = [u_upd EXCEPT !.pc = "raised"]
    /\ UNCHANGED <<u_jobs, u_old, u_clock, notMerge>>

MergeNext ==
    \/ RunOnMain
    \/ UpdStart
    \/ RunOnUpdates
    \/ BuilderJob
    \/ UpdMoveData
    \/ UpdSaveMd
    \/ UpdMergeMd

InitMerge ==
    MergeInit /\ TileIdle /\ RunIdle /\ CheckIdle /\ LoadIdle /\ CrossIdle
        /\ ShapeIdle /\ HashIdle /\ CatalogIdle /\ QueryIdle /\ JobsIdle /\ CoverIdle

SpecMerge == InitMerge /\ [][MergeNext]_vars

-----------------------------------------------------------------------------
(* Tiling followed by the consistency check: tile_runner.py main, then
   scripts/check_tiles.py main on the same database *)

notCheckCover ==
    <<tileVars, runVars, loadVars, crossVars, shapeVars, hashVars, catalogVars,
      queryVars, jobsVars, mergeVars>>

CoverInit ==
    /\ CheckInit
    /\ v_tiling = [pc |-> "idle"]

\* tile_runner main, not a dry run, on the database the check will read: exit(1)
\* on data without metadata, otherwise the metadata rows of the tiles of the
\* region that intersect a granule and have no stored row are written (the jobs
\* it then submits write data only)
CoverTiling ==
    /\ c_run.pc = "idle"
    /\ v_tiling.pc = "idle"
    /\ \E covering_tiles \in (SUBSET RunTiles) \ {{}}, ps \in SamplePairSets :
          LET cmr      == {Assoc(p[1], p[2], CmrHash) : p \in ps}
              joined   == tile_granule_join(covering_tiles, cmr)
              required == {a.tile : a \in joined}
              rows     == new_rows(joined, c_md)
              wrong    == wrong_tiles(c_data, existing_md_of(c_md), required)
              run      == [pc |-> "written", covering_tiles |-> covering_tiles,
                           cmr |-> cmr]
          IN IF wrong # {}
             THEN /\ c_md' = c_md
                  /\ v_tiling' = [run EXCEPT !.pc = "exit_1"]
             ELSE /\ c_md' = {row \in c_md : row.tile \notin {a.tile : a \in rows}}
                        \cup {CheckRow(a.tile, a.granule, a.hash, 1) : a \in rows}
                  /\ v_tiling' = run
    /\ UNCHANGED <<c_lit, c_data, c_run, notCheckCover>>

CoverNext ==
    \/ CoverTiling
    \/ CheckBegin
    \/ CheckValidity
    \/ CheckCoverage
    \/ CheckDiff
    \/ CheckMove

InitCover ==
    CoverInit /\ TileIdle /\ RunIdle /\ LoadIdle /\ CrossIdle
        /\ ShapeIdle /\ HashIdle /\ CatalogIdle /\ QueryIdle /\ JobsIdle /\ MergeIdle

SpecCover == InitCover /\ [][CoverNext]_vars

-----------------------------------------------------------------------------
(* Claims about the reconciliation run *)

RunCompleted == r_run.pc = "ended" /\ r_run.result = "done"

StoredBefore(a) ==
    \E row \in r_run.md_before : row.tile = a.tile /\ row.granule = a.granule

\* C1 (as stated): in a completed run every (tile, granule) association in the
\* source and absent from the stored metadata is in the metadata write and its
\* tile gets a processing job, whatever other rows the store holds for the tile.
C1_EveryNewAssociationWritten ==
    RunCompleted =>
        \A a \in r_run.plan.source :
            ~StoredBefore(a) =>
                /\ a \in r_run.written
                /\ a.tile \in r_run.handed

\* C1 (amended): in a run that passes the data-without-metadata check and is not a
\* dry run, every association in the source whose tile has no row at all in the
\* stored metadata is written (stamped with the run's access time) and its tile is
\* in the list handed to JobsManager; associations of tiles that already have
\* stored rows are not written.
C1_NewTilesWrittenAndHanded ==
    RunCompleted =>
        \A a \in r_run.plan.source :
            IF a.tile \notin existing_md_of(r_run.md_before)
            THEN /\ a \in r_run.written
                 /\ MdRow(a.tile, a.granule, a.hash, r_run.now) \in r_md
                 /\ a.tile \in r_run.handed
            ELSE a \notin r_run.written

\* C1 witness: a completed run wrote an association of a tile new to the store and
\* submitted a job for the tile, while the store already held another tile
C1_Witness ==
    /\ RunCompleted
    /\ r_run.md_before # {}
    /\ \E a \in r_run.plan.source :
          /\ a.tile \notin existing_md_of(r_run.md_before)
          /\ MdRow(a.tile, a.granule, a.hash, r_run.now) \in r_md
          /\ a.tile \in r_run.submitted

OrphansAtPlan ==
    {t \in r_run.plan.existing_tiles : t \notin existing_md_of(r_run.md_before)}

\* C4: if any tile has persisted data but no persisted metadata, the run stops with
\* exit(1) before writing metadata and before submitting a job: the metadata store
\* is as the run found it and the platform has no new job.
C4_OrphanIsFatal ==
    (r_run.pc # "idle" /\ OrphansAtPlan # {}) =>
        /\ r_run.pc = "ended"
        /\ r_run.result = "exit_1"
        /\ r_md = r_run.md_before
        /\ r_run.written = {}
        /\ r_run.submitted = {}
        /\ Cardinality(r_jobs) = r_run.jobs_before

\* C4 witness: a run that had rows to write and tiles to process stopped on a tile
\* with data and no metadata
C4_Witness ==
    /\ r_run.pc = "ended"
    /\ r_run.result = "exit_1"
    /\ OrphansAtPlan # {}
    /\ r_run.plan.rows # {}
    /\ r_run.plan.missing_tiles # {}

\* the WorkPlan of a plan: tiles needing a metadata write, tiles needing data
\* processing, the associations to write
WorkPlan(plan) ==
    [md_tiles   |-> {a.tile : a \in plan.rows},
     data_tiles |-> plan.missing_tiles,
     assocs     |-> plan.rows]

SameSnapshots ==
    /\ r_prev.plan.source = r_run.plan.source
    /\ r_prev.md = r_run.md_before
    /\ r_prev.plan.existing_tiles = r_run.plan.existing_tiles

-----------------------------------------------------------------------------
(* Claims about the consistency check *)

\* C2: if the stored metadata holds the same (tile_id, granule_key) more than
\* once, check_tiles aborts with an error at the validity check: it never
\* reaches the diff against the source and never ends without an error.
C2_DuplicatesAbortBeforeDiff ==
    (c_run.pc # "idle" /\ duplicate_groups(c_md) # {}) =>
        /\ c_run.pc \in {"validity", "ended"}
        /\ ~c_run.diffed
        /\ c_run.pc = "ended" => c_run.result # "ok"

\* C3: if a (tile, granule) of the source is stored with another fingerprint,
\* a run that was given a region ends with an error whose report names every
\* implicated tile, and no tile data has been moved.
C3_MismatchReportsTiles ==
    (c_run.pc = "ended" /\ c_run.stage # "begin"
        /\ mismatched(c_run.cmr_md, c_md) # {}) =>
        /\ c_run.result # "ok"
        /\ {m.tile : m \in mismatched(c_run.cmr_md, c_md)} \subseteq c_run.reported

-----------------------------------------------------------------------------
(* Claims about the granule reader *)

\* C6: a failed read is retried exactly once after a credential refresh and a
\* second failure escalates: a call to load_granule_product never makes more
\* than two read attempts, and after two failed reads it has raised.
C6_AtMostTwoReads ==
    /\ l_attempts <= 2
    /\ (l_attempts = 2 /\ l_pc \notin {"try", "returned"}) => l_pc = "raised"

-----------------------------------------------------------------------------
(* Claims about the crossover finder *)

RowsOfPair(a, b) ==
    {row \in x_run.pairs : {row.shot_number_1, row.shot_number_2} = {a.shot, b.shot}}

C8_LargeThresholdRejected ==
    (x_run.pc # "idle"
        /\ 16 * (x_run.threshold + BUFFER_CM) * (x_run.threshold + BUFFER_CM)
              >= 67 * EDGE_LENGTH_CM * EDGE_LENGTH_CM) =>
        /\ x_run.pc = "raised"
        /\ x_run.result = "ValueError"
        /\ ~x_run.read
        /\ x_run.pairs = {}

\* C8 witness: a call with a threshold just above the maximum, on a small
\* region and with columns given, has raised
C8_Witness ==
    /\ x_run.pc = "raised"
    /\ x_run.threshold = 5365
    /\ x_run.columns # "None"
    /\ ~x_run.read

-----------------------------------------------------------------------------
(* Claims about the tile grid *)

IsWhole(x) == x % Res = 0

\* C9 (as stated): for every valid (lon, lat), Tile(_to_text(lon, lat)) is a tile
\* whose bounding box contains (lon, lat).
C9_RoundTripContainsPoint ==
    t_pc = "tile" => (t_tile # TileError /\ BoxContains(t_tile, t_lon, t_lat))

\* C9 (amended): for every valid (lon, lat), Tile(_to_text(lon, lat)) is the tile
\* whose upper-left corner is (lon, lat) truncated toward zero; its closed box
\* contains the point exactly when lon is whole or non-negative and lat is whole
\* or non-positive, so in particular for every whole-degree point.
C9_RoundTripTruncates ==
    t_pc = "tile" =>
        /\ t_tile # TileError
        /\ t_tile.minx = (IF t_lon < 0 THEN -1 ELSE 1) * (Abs(t_lon) \div Res)
        /\ t_tile.maxy = (IF t_lat < 0 THEN -1 ELSE 1) * (Abs(t_lat) \div Res)
        /\ BoxContains(t_tile, t_lon, t_lat)
              <=> ((IsWhole(t_lon) \/ t_lon >= 0) /\ (IsWhole(t_lat) \/ t_lat <= 0))

\* C9 witness: (lon = -60, lat = 10) yields N10_W060, which contains it
C9_Witness ==
    /\ t_pc = "tile"
    /\ t_lon = -60 * Res /\ t_lat = 10 * Res
    /\ t_tile # TileError
    /\ t_tile.id = <<"N", "1", "0", "_", "W", "0", "6", "0">>
    /\ BoxContains(t_tile, t_lon, t_lat)

\* the upper-left corners of the 1-degree cells of the globe [-180,180]x[-90,90]
\* that a rectangle overlaps with positive area
GlobeCellsUnder(row) ==
    {<<i, j>> :
        i \in {i \in (-180)..179 : i * Res < row.x1 /\ row.x0 < (i + 1) * Res},
        j \in {j \in (-89)..90 : (j - 1) * Res < row.y1 /\ row.y0 < j * Res}}

\* C10: the enumerated tiles have distinct identifiers and pairwise non-overlapping
\* interiors, and their union is the whole globe with no gaps: every 1-degree cell
\* of the globe under a region is among the region's tiles, so every non-empty
\* region inside the globe is assigned at least one tile.
C10_GridTilesTheGlobe ==
    t_pc = "covered" =>
        /\ \A a, b \in t_cover :
              a # b => /\ a.id # b.id
                       /\ (a.maxx <= b.minx \/ b.maxx <= a.minx
                           \/ a.maxy <= b.miny \/ b.maxy <= a.miny)
        /\ \A row \in t_region : \A part \in row : \A c \in GlobeCellsUnder(part) :
              \E t \in t_cover : t.minx = c[1] /\ t.maxy = c[2]
        /\ t_cover # {}

\* C11: under the builder's membership test every location of
\* [-180,180] x [-90,90] belongs to exactly one tile of the grid; (-60, 10)
\* belongs to N10_W060 and (-59, 9) does not.
C11_EveryPointInOneTile ==
    t_pc \in {"point", "text", "tile"} =>
        /\ Cardinality(grid_tiles_holding(t_lon, t_lat)) = 1
        /\ in_tile(Tile(<<"N", "1", "0", "_", "W", "0", "6", "0">>), -60 * Res, 10 * Res)
        /\ ~in_tile(Tile(<<"N", "1", "0", "_", "W", "0", "6", "0">>), -59 * Res, 9 * Res)

\* the locations of the model that lie in some tile of the grid lie in one only,
\* and those that lie in none are east of 179 or not north of -89
PointsOutsideGrid ==
    t_pc \in {"point", "text", "tile"} =>
        /\ Cardinality(grid_tiles_holding(t_lon, t_lat)) <= 1
        /\ grid_tiles_holding(t_lon, t_lat) = {}
              <=> (t_lon < -180 * Res \/ t_lon >= 179 * Res
                   \/ t_lat <= -89 * Res \/ t_lat > 90 * Res)

\* the identifier has the format [NS][DD]_[EW][DDD]
WellFormedId(tile_id) ==
    /\ Len(tile_id) = 8
    /\ tile_id[1] \in {"N", "S"}
    /\ IsDigit(tile_id[2]) /\ IsDigit(tile_id[3])
    /\ tile_id[4] = "_"
    /\ tile_id[5] \in {"E", "W"}
    /\ IsDigit(tile_id[6]) /\ IsDigit(tile_id[7]) /\ IsDigit(tile_id[8])

\* the degrees of a well-formed identifier are at most 90 and 180
DegreesInRange(tile_id) ==
    /\ ParseInt(SubSeq(tile_id, 2, 3)) <= 90
    /\ ParseInt(SubSeq(tile_id, 6, 8)) <= 180

\* C12: constructing a Tile from a malformed identifier raises an error and
\* yields no tile, for identifiers of the wrong format and for identifiers of
\* the right format whose degrees are out of range.
C12_MalformedIdRaises ==
    t_pc = "args" =>
        ((~WellFormedId(t_id) \/ ~DegreesInRange(t_id)) => t_tile = TileError)

\* what Tile accepts and rejects among the identifiers of the model: exactly the
\* eight-character format, with or without a newline after it, whatever the degrees
TileAcceptsFormatOnly ==
    t_pc = "args" =>
        (t_tile = TileError
            <=> ~(\/ WellFormedId(t_id)
                  \/ Len(t_id) = 9 /\ t_id[9] = "\n" /\ WellFormedId(SubSeq(t_id, 1, 8))))

SameBox(a, b) ==
    a.minx = b.minx /\ a.maxx = b.maxx /\ a.miny = b.miny /\ a.maxy = b.maxy

CanonicalId(tile_id) ==
    LET lat_dir == IF SubSeq(tile_id, 2, 3) = <<"0", "0">> THEN "N" ELSE tile_id[1]
        lon_dir == IF SubSeq(tile_id, 6, 8) = <<"0", "0", "0">> THEN "E" ELSE tile_id[5]
    IN <<lat_dir>> \o SubSeq(tile_id, 2, 4) \o <<lon_dir>> \o SubSeq(tile_id, 6, 8)

PartsOf(shape) == UNION shape

\* the same region as one multipolygon row, and as one polygon row per part
AsOneRow(shape) == {PartsOf(shape)}

AsPolygonRows(shape) == {{part} : part \in PartsOf(shape)}

\* C14 (as stated): get_covering_tiles_for_region returns the same tiles for a
\* region given as one multipolygon row, as several polygon rows, or as the
\* union of the region's own covering tiles.
C14_SameTilesForEveryRepresentation ==
    t_pc = "covered" =>
        /\ get_covering_tiles_for_region(AsOneRow(t_region)) = t_cover
        /\ get_covering_tiles_for_region(AsPolygonRows(t_region)) = t_cover
        /\ get_covering_tiles_for_region(union_all(t_cover)) = t_cover

\* the tiles of the grid whose corner is at most one degree from the corner of
\* a given tile, on both axes
TouchingTiles(covering_tiles) ==
    {Tile(_to_text(c[1] * Res, c[2] * Res)) :
        c \in {g \in UNION {{<<t.minx + di, t.maxy + dj>> :
                                di \in {-1, 0, 1}, dj \in {-1, 0, 1}} :
                            t \in covering_tiles} :
                  /\ g[1] >= grid_minx /\ g[1] < grid_maxx
                  /\ g[2] > grid_miny /\ g[2] <= grid_maxy}}

\* C14 (amended): get_covering_tiles_for_region returns the same tiles for a
\* region given as one multipolygon row or as several polygon rows; for the
\* union of the region's own covering tiles it returns those tiles and every
\* tile of the grid that touches one of them.
C14_SameTilesForRowsMoreForTiled ==
    t_pc = "covered" =>
        /\ get_covering_tiles_for_region(AsOneRow(t_region)) = t_cover
        /\ get_covering_tiles_for_region(AsPolygonRows(t_region)) = t_cover
        /\ get_covering_tiles_for_region(union_all(t_cover)) = TouchingTiles(t_cover)

\* C14 witness: a region of two polygon rows was covered, and covering the
\* union of its tiles gives more tiles
C14_Witness ==
    /\ t_pc = "covered"
    /\ Cardinality(t_region) = 2
    /\ t_cover # {}
    /\ get_covering_tiles_for_region(AsOneRow(t_region)) = t_cover
    /\ get_covering_tiles_for_region(union_all(t_cover)) # t_cover

\* C15: the covering set contains the region (every 1-degree cell of the globe
\* that the region overlaps is returned) and is minimal (every returned tile
\* overlaps the region in more than a border, so that removing it uncovers
\* some of the region).
C15_CoverIsMinimal ==
    t_pc = "covered" =>
        /\ \A part \in PartsOf(t_region) : \A c \in GlobeCellsUnder(part) :
              \E t \in t_cover : t.minx = c[1] /\ t.maxy = c[2]
        /\ \A t \in t_cover : \E part \in PartsOf(t_region) :
              <<t.minx, t.maxy>> \in GlobeCellsUnder(part)

\* inside the enumerated grid the covering set contains the region, and the
\* tiles of it that can be removed are those that share only a border with it
CoverInsideGrid ==
    (t_pc = "covered" /\ \A part \in PartsOf(t_region) :
                            part.x1 <= 179 * Res /\ part.y0 >= -89 * Res) =>
        /\ \A part \in PartsOf(t_region) : \A c \in GlobeCellsUnder(part) :
              \E t \in t_cover : t.minx = c[1] /\ t.maxy = c[2]
        /\ \A t \in t_cover : \E part \in PartsOf(t_region) :
              Intersects(TileShape(t.minx, t.miny, t.maxx, t.maxy), part)

-----------------------------------------------------------------------------
(* Claims about the shape formatting *)

ShapeEnded == s_run.pc \in {"raised", "returned"}

\* C16: whenever check_and_format_shape returns, the region it returns contains
\* the region it was given, both when the shape is within the budget (holes
\* closed, rings re-oriented) and when it was replaced by the union of the
\* 5-degree tiles covering it.
C16_OutputContainsInput ==
    s_run.pc = "returned" => ShapeCells(s_shp) \subseteq ShapeCells(s_run.shp)

C16_Witness ==
    /\ s_run.pc = "returned"
    /\ s_run.coarsened
    /\ \E row \in s_shp : \E p \in row : p.holes # {}
    /\ ShapeCells(s_shp) # ShapeCells(s_run.shp)

\* C17 (as stated): a call given a shape over the budget replaces it by the union
\* of the covering 5-degree tiles and counts again, and it raises only if the
\* coarsened shape is still over the budget.
C17_OverBudgetCoarsens ==
    (ShapeEnded /\ s_run.n_in > s_run.max_coords) =>
        /\ s_run.coarsened
        /\ s_run.pc = "raised" => s_run.n_coords > s_run.max_coords

\* C17 (amended): a call with max_coords at most 500 given a shape over the budget
\* raises DetailError without coarsening unless simplify is set; with simplify
\* set it replaces the shape by the union of the covering 5-degree tiles, counts
\* again, and raises ValueError exactly when that union is still over the budget.
C17_OverBudgetCoarsensWhenAsked ==
    (ShapeEnded /\ s_run.n_in > s_run.max_coords
                /\ s_run.max_coords <= MaxCoordsLimit) =>
        IF s_run.simplify
        THEN /\ s_run.coarsened
             /\ s_run.n_coords =
                    get_n_coords(get_covering_region_for_shape(s_shp, CoarseStep))
             /\ s_run.pc = "raised" <=> s_run.n_coords > s_run.max_coords
             /\ s_run.pc = "raised" => s_run.error = "ValueError"
        ELSE /\ s_run.pc = "raised"
             /\ s_run.error = "DetailError"
             /\ ~s_run.coarsened

C17_Witness ==
    /\ s_run.pc = "returned"
    /\ s_run.simplify
    /\ s_run.n_in > s_run.max_coords
    /\ s_run.coarsened
    /\ s_run.n_coords <= s_run.max_coords

-----------------------------------------------------------------------------
(* Claims about the granule fingerprint *)

Reorderings(n) == {f \in [1..n -> 1..n] : \A k \in 1..n : \E j \in 1..n : f[j] = k}

SameNames(a, b) ==
    /\ Len(a) = Len(b)
    /\ \E f \in Reorderings(Len(a)) : \A k \in 1..Len(a) : b[k] = a[f[k]]

\* C18: two lists holding the same filenames in different orders have the same
\* fingerprint (the fingerprint is taken over the sorted list).
C18_SameNamesSameFingerprint ==
    (h_out.pc = "hashed" /\ SameNames(h_a, h_b)) => h_out.of_a = h_out.of_b

\* C19: two different lists of filenames, with names that hold ',' ':' or
\* digits, empty names and the empty list among them, never give the same
\* string to the digest.
C19_EncodingUnambiguous ==
    (h_out.pc = "hashed" /\ h_a # h_b) => h_out.of_a.md5 # h_out.of_b.md5

C19_Witness ==
    /\ h_out.pc = "hashed"
    /\ h_a # h_b
    /\ join_comma(h_a) = join_comma(h_b)
    /\ \E k \in 1..Len(h_a) : \E j \in 1..Len(h_a[k]) : h_a[k][j] = ","
    /\ h_out.of_a # h_out.of_b

-----------------------------------------------------------------------------
(* Claims about the granule catalog *)

\* the files the catalog holds for a product and a granule key
FilesOf(product, key) ==
    {k \in 1..Len(g_cmr[product]) :
        get_granule_key_for_filename(g_cmr[product][k].granule_name) = key}

CatalogKeys ==
    UNION {{get_granule_key_for_filename(g_cmr[p][k].granule_name) :
                k \in 1..Len(g_cmr[p])} : p \in ListedProducts(g_products)}

RECURSIVE CountFiles(_, _)
CountFiles(products, key) ==
    IF products = {} THEN 0
    ELSE LET p == CHOOSE q \in products : TRUE
         IN  Cardinality(FilesOf(p, key)) + CountFiles(products \ {p}, key)

\* C20 (as stated): every granule in the result of get_granule_metadata has
\* exactly one source file for each required product; a granule that lacks a
\* product or has several files for one is not in the result.
C20_ExactlyOneFilePerProduct ==
    g_run.pc = "returned" =>
        \A row \in g_run.md : \A p \in ListedProducts(g_products) :
            Cardinality(FilesOf(p, row.granule_key)) = 1

\* C20 (amended): the result of get_granule_metadata holds exactly the granules
\* that have at least one source file for each required product; a granule with
\* several files for a product is kept, with all its filenames.
C20_AtLeastOneFilePerProduct ==
    g_run.pc = "returned" =>
        /\ {row.granule_key : row \in g_run.md} =
              {key \in CatalogKeys :
                  \A p \in ListedProducts(g_products) : FilesOf(p, key) # {}}
        /\ \A row \in g_run.md :
              Len(row.granule_names) =
                  CountFiles(ListedProducts(g_products), row.granule_key)

C20_Witness ==
    /\ g_run.pc = "returned"
    /\ \E key \in CatalogKeys : \A row \in g_run.md : row.granule_key # key
    /\ \E row \in g_run.md : Len(row.granule_names) > Len(g_products)

-----------------------------------------------------------------------------
(* Claims about the catalog query *)

QueryPagesUpTo(n) == [k \in 1..n |-> k]

\* the first page the catalog answers empty, if it has one within reach
FirstEmptyPage == CHOOSE n \in 1..(MaxPages + 1) :
    /\ n <= MaxPages => answer(q_cat, n) = << >>
    /\ \A k \in 1..(n - 1) : answer(q_cat, k) # << >>

RECURSIVE EntriesBefore(_)
EntriesBefore(n) ==
    IF n <= 1 THEN << >> ELSE EntriesBefore(n - 1) \o answer(q_cat, n - 1)

\* C21 (as stated): query asks for pages 1, 2, 3, ... in order, stops at the first
\* empty page and returns a record for every entry of every page before it.
C21_ReturnsEveryRecord ==
    q_run.pc = "returned" =>
        /\ q_run.requested = QueryPagesUpTo(FirstEmptyPage)
        /\ Len(q_run.result) = Len(EntriesBefore(FirstEmptyPage))

QueryPaginationSafe ==
    /\ q_run.pc \in {"loop", "break", "raised", "returned"} =>
          /\ q_run.requested = QueryPagesUpTo(Len(q_run.requested))
          /\ \A k \in 1..(Len(q_run.requested) - 1) : answer(q_cat, k) # << >>
    /\ q_run.pc \in {"break", "returned"} =>
          /\ q_run.requested = QueryPagesUpTo(FirstEmptyPage)
          /\ FirstEmptyPage <= MaxPages
    /\ q_run.pc = "raised" => q_cat.fails_at = Len(q_run.requested)
    /\ q_run.pc = "returned" =>
          LET kept == SelectSeq(EntriesBefore(FirstEmptyPage),
                                LAMBDA g : g.online_access_flag /\ g.polygons)
          IN  /\ Len(q_run.result) = Len(kept)
              /\ \A k \in 1..Len(kept) :
                    /\ q_run.result[k].granule_name = kept[k].producer_granule_id
                    /\ q_run.result[k].granule_size = kept[k].granule_size

\* C21 (amended): query asks for pages 1, 2, 3, ... in order while they are not
\* empty, raises HTTPError at the first response that is not ok, stops at the
\* first empty page and returns, in order, the entries of the pages before it
\* that are online and have a polygon; and a call to a catalog that answers some
\* page empty ends.
C21_PagesUntilEmpty ==
    /\ []QueryPaginationSafe
    /\ [](FirstEmptyPage <= MaxPages => <>(q_run.pc \in {"returned", "raised"}))

C21_Witness ==
    /\ q_run.pc = "returned"
    /\ Len(q_run.requested) = 3
    /\ Len(q_run.result) > 0
    /\ Len(q_run.result) < Len(EntriesBefore(FirstEmptyPage))

-----------------------------------------------------------------------------
(* Claims about the jobs manager *)

\* the jobs among ids that belong to the manager's own campaign
OwnJobs(ids) == {k \in ids : tag_of_campaign(j_jobs[k].tag, j_mgr.job_code)}

ManagerDecided == j_mgr.pc \notin {"idle", "start"}

\* C22: what the manager does is what it would do with the jobs of every other
\* campaign (another job_code) taken away: it skips submission exactly when its
\* own Succeeded jobs make it, and it submits for exactly the tiles that none
\* of its own listed jobs started.
C22_OtherCampaignsIgnored ==
    /\ ManagerDecided =>
          (j_mgr.pc = "returned" <=>
              Cardinality(succeeded_subset(j_jobs, OwnJobs(j_mgr.succeeded), j_mgr.tiles))
                  >= Cardinality(j_mgr.tiles))
    /\ j_mgr.pc = "exited" =>
          j_mgr.submitted = j_mgr.tiles \ tabify_index(j_jobs, OwnJobs(j_mgr.listed))

\* C27: a tile with a job of the campaign that is Accepted or Running from the
\* first of the four listings to the last is not submitted a second job.
C27_ActiveTileNotResubmitted ==
    j_mgr.pc = "exited" =>
        \A k \in OwnJobs(j_mgr.active_first \cap j_mgr.active_last) :
            j_jobs[k].tile_id \notin j_mgr.submitted

\* C28: manage skips the submission exactly when every tile of its list has a
\* Succeeded job among those it listed, however many each tile has.
C28_SkipsOnlyWhenAllSucceeded ==
    ManagerDecided =>
        (j_mgr.pc = "returned" <=>
            \A t \in j_mgr.tiles :
                \E k \in j_mgr.succeeded : j_jobs[k].tile_id = t)

-----------------------------------------------------------------------------
(* More claims about the crossover finder *)

\* C23: a call of find_repeat_footprints without columns (None) whose region
\* and threshold are accepted does not raise: once the shots are read it goes on
\* to return the pairs.
C23_ColumnsOmittedReturns ==
    (x_run.pc # "idle" /\ x_run.columns = "None" /\ x_run.read) =>
        x_run.pc # "raised"

-----------------------------------------------------------------------------
(* More claims about the reconciliation run *)

\* C24: the metadata write precedes every job submission: every job that has
\* been submitted is for a tile that has rows in the persisted metadata
C24_MetadataBeforeJobs ==
    \A j \in r_jobs : j.tile \in existing_md_of(r_md)

\* a run has just submitted a job for a tile whose rows it wrote itself
C24_Witness ==
    /\ r_run.pc = "ended"
    /\ r_run.result = "done"
    /\ \E t \in r_run.submitted : t \in {a.tile : a \in r_run.written}

\* the persisted metadata rows of one tile
md_rows_of(md, t) == {row \in md : row.tile = t}

\* C25: metadata for a tile is written only once: no step adds, removes or
\* changes a row of a tile that already has rows in the persisted metadata
C25_TileMetadataWrittenOnce ==
    [][\A t \in existing_md_of(r_md) : md_rows_of(r_md', t) = md_rows_of(r_md, t)]_vars

\* a second run has written metadata although the catalog showed it a new
\* granule for a tile whose metadata was already persisted
C25_Witness ==
    /\ r_clock = 2
    /\ r_run.pc = "ended"
    /\ r_run.result = "done"
    /\ r_run.written # {}
    /\ \E a \in r_run.plan.source :
          /\ a.tile \in existing_md_of(r_run.md_before)
          /\ ~\E row \in r_run.md_before :
                 row.tile = a.tile /\ row.granule = a.granule

\* a run started with --dry_run is over at once, has written no metadata row and
\* submitted no job, and the metadata and the jobs are those it found
DryRunTouchesNothing ==
    (r_run.pc # "idle" /\ r_run.dry_run) =>
        /\ r_run.pc = "ended"
        /\ r_run.written = {}
        /\ r_run.submitted = {}
        /\ r_md = r_run.md_before
        /\ Cardinality(r_jobs) = r_run.jobs_before

\* C26: with --dry_run the run leaves the metadata store and the data store
\* unchanged and submits no job: the step that makes the dry run changes none
\* of the three, and no later step belongs to that run
C26_DryRunChangesNothing ==
    /\ []DryRunTouchesNothing
    /\ [][(r_run' # r_run /\ r_run'.dry_run) =>
              (r_md' = r_md /\ r_data' = r_data /\ r_jobs' = r_jobs)]_vars

\* a dry run has ended whose plan had metadata rows to write and tiles to build
C26_Witness ==
    /\ r_run.pc = "ended"
    /\ r_run.result = "dry_run"
    /\ r_run.plan.rows # {}
    /\ r_run.plan.missing_tiles # {}

-----------------------------------------------------------------------------
(* Claims about the update of the tiled database *)

\* C29: in every state reached from empty databases through tile_runner runs,
\* builder jobs and the steps of the update procedure, every tile that has
\* persisted data also has persisted metadata
C29_DataHasMetadata ==
    \A d \in DOMAIN u_store :
        \A t \in u_store[d].data : t \in existing_md_of(u_store[d].md)

-----------------------------------------------------------------------------
(* Claims about tiling followed by the consistency check *)

\* the check was run for the region the tiling wrote metadata for, against the
\* same catalog
CheckedAfterTiling ==
    /\ v_tiling.pc = "written"
    /\ c_run.pc = "ended"
    /\ c_run.covering_tiles = v_tiling.covering_tiles
    /\ c_run.cmr_md = tile_granule_join(v_tiling.covering_tiles, v_tiling.cmr)

\* C30: after tile_runner has written the metadata of a region, and with the
\* catalog unchanged, the coverage check of check_tiles for that region passes:
\* the run gets past it, every covering tile being in the stored metadata
C30_CoverageCheckPasses ==
    CheckedAfterTiling =>
        /\ c_run.stage \in {"diff", "move"}
        /\ c_run.covering_tiles \subseteq existing_md_of(c_md)

=============================================================================
